---- MODULE Spec2Model ----
(***************************************************************************)
(* A model of solid_mcp's native core (ext/solid_mcp_native/core/src):     *)
(* the batching MessageWriter (writer.rs), the store's messages table      *)
(* (db/sqlite.rs, db/postgres.rs), the polling Subscriber (subscriber.rs)  *)
(* and the PubSub facade (pubsub.rs).                                      *)
(*                                                                         *)
(* A message is identified by the number n of the Message::new call that   *)
(* built it (its payload); the store assigns the row id.                   *)
(*                                                                         *)
(* A call that finds what it needs (a free channel slot) completes in the  *)
(* step that makes it; a call that has to wait is a step of its own.  The  *)
(* channel hands freed slots to the waiting senders in the order in which  *)
(* they started to wait (tokio's mpsc semaphore), so a slot that a waiting *)
(* sender is entitled to is not free for anyone else.                      *)
(***************************************************************************)
EXTENDS Integers, Sequences, FiniteSets, TLC

\* ------------------------------------------------------------------ bounds
\* Message::new calls in a run of the writer's specification.
MaxMsgs == 3
\* Message::new calls in a run of the whole engine's specification.
MaxPub == 2
\* flush() calls in a run.
MaxFlush == 1
\* Config::max_queue_size, the capacity of the command channel (default 10_000).
MaxQueueSize == 2
\* Config::batch_size (default 200).
BatchSize == 2
\* Store calls that fail in a run.
MaxFail == 1
\* Subscriber::new calls in a run.
MaxSubs == 2
\* The limit the polling loop passes to fetch_after (100 in subscriber.rs:131),
\* scaled down so that a session can hold more pending messages than one poll
\* returns.
PollLimit == 1
\* The limit the push loop's catch-up passes to fetch_after (1000 in
\* subscriber.rs:181), scaled down; it stays above PollLimit.
CatchupLimit == 2
\* Instants of the wall clock in a run (the clock starts at 1).
MaxTime == 4
\* Config::delivered_retention (default 3600 s), in clock instants.
DeliveredRetention == 1
\* Config::undelivered_retention (default 86400 s), in clock instants.
UndeliveredRetention == 2
\* The largest limit a direct fetch_after call is given.
MaxLimit == 2

Sessions == {"s1", "s2"}
\* the session the writer's specification publishes to
WriterSessions == {"s1"}

\* ------------------------------------------------------------------- state
VARIABLES
  chan,           \* the mpsc channel of WriterCommand, oldest first
  sendq,          \* the commands of the senders waiting for a slot, oldest first
  wpc,            \* where the worker task is in writer_loop
  batch,          \* writer_loop's draft batch
  flush_waiters,  \* writer_loop's collected oneshot senders (flush numbers)
  rows,           \* table solid_mcp_messages, by ascending id
  next_id,        \* the id the next inserted row gets (AUTOINCREMENT / BIGSERIAL)
  now,            \* the wall clock
  nfail,          \* store calls that failed so far
  npub,           \* Message::new calls so far
  session_of,     \* per message: the session_id it was built with
  result,         \* per message: what its publish call returned
  hb,             \* per message: the messages accepted before its publish was called
  flush,          \* per flush() call: its state and the messages accepted before it
  enq,            \* the messages placed on the channel, in that order
  passed,         \* the messages passed to insert_batch so far
  lost,           \* messages of a batch whose insert_batch failed
  signalled,      \* flush numbers whose oneshot sender was sent on
  registry,       \* PubSub::subscribers: per session its subscriber (task number) or 0
  task,           \* per Subscriber::new call: the subscriber and its spawned task
  delivered,      \* per subscriber: the rows its callback was invoked with, in order
  engine,         \* where PubSub::shutdown is
  to_stop,        \* the subscribers shutdown drained from the registry, not yet stopped
  stopping,       \* the subscriber whose stop() is being waited in, or 0
  ret,            \* what the last registry call of the facade returned
  subscribed,     \* the sessions with a successful subscribe and no unsubscribe since
  cleaning,       \* PubSub::cleanup in progress: its state and first count
  backend,        \* the DbPool variant the engine was built with
  inbox           \* per subscriber: the notifications its listener has buffered

writerVars == <<chan, wpc, batch, flush_waiters>>
storeVars  == <<rows, next_id, now, nfail>>
callVars   == <<npub, session_of, result, hb, flush, sendq>>
ghostVars  == <<enq, passed, lost, signalled>>
subVars    == <<registry, task, delivered>>
shutVars   == <<engine, to_stop, stopping>>
apiVars    == <<ret, subscribed, cleaning>>
pushVars   == <<backend, inbox>>
vars == <<writerVars, storeVars, callVars, ghostVars, subVars, shutVars, apiVars, pushVars>>

\* ---------------------------------------------------------------- messages
NULL == 0

\* WriterCommand
MessageCmd(m) == [type |-> "Message", msg |-> m]
FlushCmd(f)   == [type |-> "Flush", waiter |-> f]
ShutdownCmd   == [type |-> "Shutdown"]

\* Message::new: id 0, created_at Utc::now(), delivered_at None
NewMessage(n, s) == [n |-> n, session_id |-> s, created_at |-> now]

Range(q) == {q[i] : i \in 1..Len(q)}
Numbers(msgs) == {msgs[i].n : i \in 1..Len(msgs)}

\* the messages whose publish returned true / whose publish_blocking returned Ok
Accepted == {n \in 1..npub : result[n] \in {"true", "ok"}}

\* ------------------------------------------------------------------- store
\* InsertBatch binding the rows' values in the reverse order of the slice
InsertBatchReversed(rs, nid, msgs) ==
  rs \o [i \in 1..Len(msgs) |->
           [id |-> nid + i - 1, session_id |-> msgs[Len(msgs) + 1 - i].session_id,
            data |-> msgs[Len(msgs) + 1 - i].n,
            created_at |-> msgs[Len(msgs) + 1 - i].created_at, delivered_at |-> NULL]]

\* insert_batch: one multi-row INSERT; the rows get consecutive ids in the
\* order of the slice, delivered_at NULL.
InsertBatch(rs, nid, msgs) ==
  rs \o [i \in 1..Len(msgs) |->
           [id |-> nid + i - 1, session_id |-> msgs[i].session_id,
            data |-> msgs[i].n, created_at |-> msgs[i].created_at,
            delivered_at |-> NULL]]

\* the WHERE clause of fetch_after without `session_id = $1`
FetchMatchAnySession(r, session_id, after_id) ==
  r.delivered_at = NULL /\ r.id > after_id

\* the WHERE clause of fetch_after without `delivered_at IS NULL`
FetchMatchIgnoresDelivered(r, session_id, after_id) ==
  r.session_id = session_id /\ r.id > after_id

\* the WHERE clause of fetch_after with `id >= $2`
FetchMatchInclusive(r, session_id, after_id) ==
  r.session_id = session_id /\ r.delivered_at = NULL /\ r.id >= after_id

\* the WHERE clause of fetch_after:
\* session_id = $1 AND delivered_at IS NULL AND id > $2
FetchMatch(r, session_id, after_id) ==
  r.session_id = session_id /\ r.delivered_at = NULL /\ r.id > after_id

\* FetchAfter with ORDER BY id DESC: the newest matching rows come first
FetchAfterNewestFirst(rs, session_id, after_id, limit) ==
  LET m == SelectSeq(rs, LAMBDA r : FetchMatch(r, session_id, after_id))
      k == IF limit < Len(m) THEN limit ELSE Len(m)
  IN  [i \in 1..k |-> m[Len(m) + 1 - i]]

RECURSIVE FetchAfter(_, _, _, _)
\* fetch_after: the matching rows, ORDER BY id LIMIT $3 (rows is kept by id)
FetchAfter(rs, session_id, after_id, limit) ==
  IF rs = <<>> \/ limit <= 0 THEN <<>>
  ELSE IF FetchMatch(Head(rs), session_id, after_id)
       THEN <<Head(rs)>> \o FetchAfter(Tail(rs), session_id, after_id, limit - 1)
       ELSE FetchAfter(Tail(rs), session_id, after_id, limit)

\* the ids of a sequence of rows
Ids(rs) == {rs[i].id : i \in 1..Len(rs)}

\* mark_delivered: UPDATE .. SET delivered_at = now WHERE id IN (ids)
MarkDeliveredRows(rs, ids, t) ==
  [i \in 1..Len(rs) |->
     IF rs[i].id \in ids THEN [rs[i] EXCEPT !.delivered_at = t] ELSE rs[i]]

\* max_id: SELECT MAX(id), 0 when the table is empty
MaxOf(S) == CHOOSE x \in S : \A y \in S : y <= x
MaxId(rs) == IF rs = <<>> THEN 0 ELSE MaxOf({rs[i].id : i \in 1..Len(rs)})

\* whether a store call may fail now (the model bounds the failures of a run)
StoreOutcomes == IF nfail < MaxFail THEN {TRUE, FALSE} ELSE {TRUE}

\* ------------------------------------------------------------------ writer
\* TrySendFull with the comparison off by one: one command more than the
\* capacity is let in
TrySendFullOffByOne(ch, q) == Len(ch) + Len(q) > MaxQueueSize

\* TrySendFull with slots taken by Message commands only: Flush and Shutdown
\* travel beside the capacity
TrySendFullMessagesOnly(ch, q) ==
  Len(SelectSeq(ch, LAMBDA c : c.type = "Message"))
    + Len(SelectSeq(q, LAMBDA c : c.type = "Message")) >= MaxQueueSize

\* mpsc::channel(max_queue_size): whether a send finds no free slot, the slots
\* being taken by the commands in the channel and by the waiting senders
TrySendFull(ch, q) == Len(ch) + Len(q) >= MaxQueueSize

\* whether the waiting sender of cmd has been handed a slot: the freed slots go
\* to the waiting senders, oldest first
HasPermit(cmd) ==
  \E i \in 1..Len(sendq) : i <= MaxQueueSize - Len(chan) /\ sendq[i] = cmd

\* q without its element cmd
Without(q, cmd) == SelectSeq(q, LAMBDA c : c # cmd)

\* signal_flush_waiters: send on every collected oneshot sender, drain the Vec
SignalFlushWaiters(waiters) == signalled \cup Range(waiters)

\* EndFill signalling the waiters before write_batch instead of after it
EndFillSignalFirst(b, w) ==
  IF b # <<>>
  THEN /\ wpc' = "writing"
       /\ batch' = b
       /\ flush_waiters' = <<>>
       /\ passed' = passed \cup Numbers(b)
       /\ signalled' = SignalFlushWaiters(w)
  ELSE /\ wpc' = "recv"
       /\ batch' = b
       /\ flush_waiters' = <<>>
       /\ passed' = passed
       /\ signalled' = SignalFlushWaiters(w)

\* EndFill handing the write to a spawned task instead of awaiting it: the
\* loop goes back to the blocking recv while insert_batch is in progress
EndFillDetached(b, w) ==
  IF b # <<>>
  THEN /\ wpc' = "recv"
       /\ batch' = <<>>
       /\ flush_waiters' = <<>>
       /\ passed' = passed \cup Numbers(b)
       /\ signalled' = SignalFlushWaiters(w)
  ELSE /\ wpc' = "recv"
       /\ batch' = b
       /\ flush_waiters' = <<>>
       /\ passed' = passed
       /\ signalled' = SignalFlushWaiters(w)

\* the end of one writer_loop iteration's fill phase: write the batch if it is
\* not empty (insert_batch is called), else signal the waiters and go back to
\* the blocking recv
EndFill(b, w) ==
  IF b # <<>>
  THEN /\ wpc' = "writing"
       /\ batch' = b
       /\ flush_waiters' = w
       /\ passed' = passed \cup Numbers(b)
       /\ signalled' = signalled
  ELSE /\ wpc' = "recv"
       /\ batch' = b
       /\ flush_waiters' = <<>>
       /\ passed' = passed
       /\ signalled' = SignalFlushWaiters(w)

\* rx.recv().await returned Some(cmd), and the match on cmd
WorkerRecv ==
  /\ wpc = "recv"
  /\ chan # <<>>
  /\ chan' = Tail(chan)
  /\ LET cmd == Head(chan) IN
       CASE cmd.type = "Message" ->
              /\ batch' = Append(batch, cmd.msg)
              /\ wpc' = "fill"
              /\ UNCHANGED flush_waiters
         [] cmd.type = "Flush" ->
              /\ flush_waiters' = Append(flush_waiters, cmd.waiter)
              /\ wpc' = "fill"
              /\ UNCHANGED batch
         [] cmd.type = "Shutdown" ->
              /\ wpc' = "drain"
              /\ UNCHANGED <<batch, flush_waiters>>
  /\ UNCHANGED <<storeVars, callVars, ghostVars, subVars, shutVars, apiVars, pushVars>>

\* the fill loop as `loop { match rx.try_recv() ... }`, without the size test
WorkerFillUnbounded ==
  /\ wpc = "fill"
  /\ IF chan # <<>>
     THEN LET cmd == Head(chan) IN
          /\ chan' = Tail(chan)
          /\ CASE cmd.type = "Message" ->
                    /\ batch' = Append(batch, cmd.msg)
                    /\ UNCHANGED <<wpc, flush_waiters, passed, signalled>>
               [] cmd.type = "Flush" ->
                    EndFill(batch, Append(flush_waiters, cmd.waiter))
               [] cmd.type = "Shutdown" ->
                    /\ wpc' = "drain"
                    /\ UNCHANGED <<batch, flush_waiters, passed, signalled>>
     ELSE /\ chan' = chan
          /\ EndFill(batch, flush_waiters)
  /\ UNCHANGED <<storeVars, callVars, enq, lost, subVars, shutVars, apiVars, pushVars>>

\* one turn of `while batch.len() < batch_size { match rx.try_recv() ... }`,
\* and what follows the loop when it ends
WorkerFill ==
  /\ wpc = "fill"
  /\ IF Len(batch) < BatchSize /\ chan # <<>>
     THEN LET cmd == Head(chan) IN
          /\ chan' = Tail(chan)
          /\ CASE cmd.type = "Message" ->
                    /\ batch' = Append(batch, cmd.msg)
                    /\ UNCHANGED <<wpc, flush_waiters, passed, signalled>>
               [] cmd.type = "Flush" ->
                    EndFill(batch, Append(flush_waiters, cmd.waiter))
               [] cmd.type = "Shutdown" ->
                    /\ wpc' = "drain"
                    /\ UNCHANGED <<batch, flush_waiters, passed, signalled>>
     ELSE /\ chan' = chan
          /\ EndFill(batch, flush_waiters)
  /\ UNCHANGED <<storeVars, callVars, enq, lost, subVars, shutVars, apiVars, pushVars>>

\* the trigger solid_mcp_insert_trigger of the Postgres schema: for each inserted
\* row pg_notify('solid_mcp_' || session_id, id), which every listener armed on
\* that channel buffers; ib is the listeners' buffers, msgs the inserted slice
\* and nid the first id
Notify(ib, nid, msgs) ==
  [t \in 1..MaxSubs |->
     IF task[t].listening
     THEN LET ids == [i \in 1..Len(msgs) |->
                        [id |-> nid + i - 1, session_id |-> msgs[i].session_id]]
              own == SelectSeq(ids, LAMBDA r : r.session_id = task[t].session_id)
          IN  ib[t] \o [k \in 1..Len(own) |-> own[k].id]
     ELSE ib[t]]

\* WriteBatch without batch.clear(): the written messages stay in the draft
WriteBatchNoClear(ok) ==
  /\ IF ok
     THEN /\ rows' = InsertBatch(rows, next_id, batch)
          /\ next_id' = next_id + Len(batch)
          /\ inbox' = Notify(inbox, next_id, batch)
          /\ UNCHANGED <<lost, nfail>>
     ELSE /\ UNCHANGED <<rows, next_id, inbox>>
          /\ lost' = lost \cup Numbers(batch)
          /\ nfail' = nfail + 1
  /\ batch' = batch

\* write_batch: db.insert_batch(batch).await returned Ok (the rows are in the
\* table) or Err (logged, the batch is dropped); then batch.clear()
WriteBatch(ok) ==
  /\ IF ok
     THEN /\ rows' = InsertBatch(rows, next_id, batch)
          /\ next_id' = next_id + Len(batch)
          /\ inbox' = Notify(inbox, next_id, batch)
          /\ UNCHANGED <<lost, nfail>>
     ELSE /\ UNCHANGED <<rows, next_id, inbox>>
          /\ lost' = lost \cup Numbers(batch)
          /\ nfail' = nfail + 1
  /\ batch' = <<>>

\* WorkerWriteDone leaving the loop when the write failed (the error
\* propagated with `?`): the barriers are dropped and the worker exits
WorkerWriteDoneExitOnError ==
  /\ wpc = "writing"
  /\ \E ok \in StoreOutcomes :
       /\ WriteBatch(ok)
       /\ signalled' = IF ok THEN SignalFlushWaiters(flush_waiters) ELSE signalled
       /\ wpc' = IF ok THEN "recv" ELSE "done"
  /\ flush_waiters' = <<>>
  /\ UNCHANGED <<chan, now, callVars, enq, passed, subVars, shutVars, apiVars, backend>>

\* WorkerWriteDone keeping the barriers of a failed write for the next
\* iteration instead of signalling them
WorkerWriteDoneKeepsWaiters ==
  /\ wpc = "writing"
  /\ \E ok \in StoreOutcomes :
       /\ WriteBatch(ok)
       /\ signalled' = IF ok THEN SignalFlushWaiters(flush_waiters) ELSE signalled
       /\ flush_waiters' = IF ok THEN <<>> ELSE flush_waiters
  /\ wpc' = "recv"
  /\ UNCHANGED <<chan, now, callVars, enq, passed, subVars, shutVars, apiVars, backend>>

\* write_batch returns; then signal_flush_waiters
WorkerWriteDone ==
  /\ wpc = "writing"
  /\ \E ok \in StoreOutcomes : WriteBatch(ok)
  /\ signalled' = SignalFlushWaiters(flush_waiters)
  /\ flush_waiters' = <<>>
  /\ wpc' = "recv"
  /\ UNCHANGED <<chan, now, callVars, enq, passed, subVars, shutVars, apiVars, backend>>

\* WorkerDrain leaving the loop without the final write_batch: the draft batch
\* is dropped
WorkerDrainNoWrite ==
  /\ wpc = "drain"
  /\ IF chan # <<>>
     THEN LET cmd == Head(chan) IN
          /\ chan' = Tail(chan)
          /\ batch' = IF cmd.type = "Message" THEN Append(batch, cmd.msg) ELSE batch
          /\ flush_waiters' = IF cmd.type = "Flush"
                              THEN Append(flush_waiters, cmd.waiter)
                              ELSE flush_waiters
          /\ UNCHANGED <<wpc, passed, signalled>>
     ELSE /\ chan' = chan
          /\ wpc' = "done"
          /\ signalled' = SignalFlushWaiters(flush_waiters)
          /\ flush_waiters' = <<>>
          /\ batch' = <<>>
          /\ UNCHANGED passed
  /\ UNCHANGED <<storeVars, callVars, enq, lost, subVars, shutVars, apiVars, pushVars>>

\* drain_remaining: one turn of `while let Ok(cmd) = rx.try_recv()`, and after
\* the loop the final write or, with an empty batch, the signal and the exit
WorkerDrain ==
  /\ wpc = "drain"
  /\ IF chan # <<>>
     THEN LET cmd == Head(chan) IN
          /\ chan' = Tail(chan)
          /\ batch' = IF cmd.type = "Message" THEN Append(batch, cmd.msg) ELSE batch
          /\ flush_waiters' = IF cmd.type = "Flush"
                              THEN Append(flush_waiters, cmd.waiter)
                              ELSE flush_waiters
          /\ UNCHANGED <<wpc, passed, signalled>>
     ELSE /\ chan' = chan
          /\ IF batch # <<>>
             THEN /\ wpc' = "dwriting"
                  /\ passed' = passed \cup Numbers(batch)
                  /\ UNCHANGED <<batch, flush_waiters, signalled>>
             ELSE /\ wpc' = "done"
                  /\ signalled' = SignalFlushWaiters(flush_waiters)
                  /\ flush_waiters' = <<>>
                  /\ UNCHANGED <<batch, passed>>
  /\ UNCHANGED <<storeVars, callVars, enq, lost, subVars, shutVars, apiVars, pushVars>>

\* WorkerDrainWriteDone without the break: after the final write the loop
\* goes back to the blocking recv
WorkerDrainWriteDoneNoBreak ==
  /\ wpc = "dwriting"
  /\ \E ok \in StoreOutcomes : WriteBatch(ok)
  /\ signalled' = SignalFlushWaiters(flush_waiters)
  /\ flush_waiters' = <<>>
  /\ wpc' = "recv"
  /\ UNCHANGED <<chan, now, callVars, enq, passed, subVars, shutVars, apiVars, backend>>

\* the final write_batch of the shutdown path, signal_flush_waiters, break/return
WorkerDrainWriteDone ==
  /\ wpc = "dwriting"
  /\ \E ok \in StoreOutcomes : WriteBatch(ok)
  /\ signalled' = SignalFlushWaiters(flush_waiters)
  /\ flush_waiters' = <<>>
  /\ wpc' = "done"
  /\ UNCHANGED <<chan, now, callVars, enq, passed, subVars, shutVars, apiVars, backend>>

Worker ==
  \/ WorkerRecv
  \/ WorkerFill
  \/ WorkerWriteDone
  \/ WorkerDrain
  \/ WorkerDrainWriteDone

\* ------------------------------------------------------------------ callers
\* The calls borrow the engine (&self) and shutdown consumes it (self): a call
\* starts only while the engine is running, and shutdown only when no call is
\* in progress.

\* PubSub::broadcast -> MessageWriter::enqueue: Message::new, then try_send
Enqueue(max, s) ==
  /\ engine = "running"
  /\ npub < max
  /\ npub' = npub + 1
  /\ session_of' = [session_of EXCEPT ![npub + 1] = s]
  /\ hb' = [hb EXCEPT ![npub + 1] = Accepted]
  /\ IF wpc = "done"
     THEN /\ result' = [result EXCEPT ![npub + 1] = "err"]
          /\ UNCHANGED <<chan, enq>>
     ELSE IF TrySendFull(chan, sendq)
     THEN /\ result' = [result EXCEPT ![npub + 1] = "false"]
          /\ UNCHANGED <<chan, enq>>
     ELSE /\ result' = [result EXCEPT ![npub + 1] = "true"]
          /\ chan' = Append(chan, MessageCmd(NewMessage(npub + 1, s)))
          /\ enq' = Append(enq, npub + 1)
  /\ UNCHANGED <<sendq, wpc, batch, flush_waiters, storeVars, flush, passed, lost,
                 signalled, subVars, shutVars, apiVars, pushVars>>

\* broadcast called while no subscriber has been created yet: every publish
\* of such a run returns before the first subscribe is called
EnqueueBeforeSubscribe(max, s) ==
  /\ \A t \in 1..MaxSubs : task[t].pc = "none"
  /\ Enqueue(max, s)

\* EnqueueAsyncCall sending with try_send: on a full channel the message is
\* dropped and Ok is returned
EnqueueAsyncCallTrySend(max, s) ==
  /\ engine = "running"
  /\ npub < max
  /\ npub' = npub + 1
  /\ session_of' = [session_of EXCEPT ![npub + 1] = s]
  /\ hb' = [hb EXCEPT ![npub + 1] = Accepted]
  /\ IF wpc = "done"
     THEN /\ result' = [result EXCEPT ![npub + 1] = "err"]
          /\ UNCHANGED <<chan, sendq, enq>>
     ELSE IF TrySendFull(chan, sendq)
     THEN /\ result' = [result EXCEPT ![npub + 1] = "ok"]
          /\ UNCHANGED <<chan, sendq, enq>>
     ELSE /\ result' = [result EXCEPT ![npub + 1] = "ok"]
          /\ chan' = Append(chan, MessageCmd(NewMessage(npub + 1, s)))
          /\ enq' = Append(enq, npub + 1)
          /\ UNCHANGED sendq
  /\ UNCHANGED <<wpc, batch, flush_waiters, storeVars, flush, passed, lost,
                 signalled, subVars, shutVars, apiVars, pushVars>>

\* PubSub::broadcast_async -> MessageWriter::enqueue_async: Message::new, then
\* tx.send(..).await, which completes at once when the channel has a free slot
\* and otherwise leaves the caller waiting for one
EnqueueAsyncCall(max, s) ==
  /\ engine = "running"
  /\ npub < max
  /\ npub' = npub + 1
  /\ session_of' = [session_of EXCEPT ![npub + 1] = s]
  /\ hb' = [hb EXCEPT ![npub + 1] = Accepted]
  /\ IF wpc = "done"
     THEN /\ result' = [result EXCEPT ![npub + 1] = "err"]
          /\ UNCHANGED <<chan, sendq, enq>>
     ELSE IF TrySendFull(chan, sendq)
     THEN /\ result' = [result EXCEPT ![npub + 1] = "sending"]
          /\ sendq' = Append(sendq, MessageCmd(NewMessage(npub + 1, s)))
          /\ UNCHANGED <<chan, enq>>
     ELSE /\ result' = [result EXCEPT ![npub + 1] = "ok"]
          /\ chan' = Append(chan, MessageCmd(NewMessage(npub + 1, s)))
          /\ enq' = Append(enq, npub + 1)
          /\ UNCHANGED sendq
  /\ UNCHANGED <<wpc, batch, flush_waiters, storeVars, flush, passed, lost,
                 signalled, subVars, shutVars, apiVars, pushVars>>

\* a waiting tx.send(..).await completes: the sender was handed a slot (or the
\* receiver is gone)
EnqueueAsyncDone(n) ==
  /\ n \in 1..npub
  /\ result[n] = "sending"
  /\ LET cmd == CHOOSE c \in Range(sendq) : c.type = "Message" /\ c.msg.n = n IN
     IF wpc = "done"
     THEN /\ result' = [result EXCEPT ![n] = "err"]
          /\ sendq' = Without(sendq, cmd)
          /\ UNCHANGED <<chan, enq>>
     ELSE /\ HasPermit(cmd)
          /\ result' = [result EXCEPT ![n] = "ok"]
          /\ sendq' = Without(sendq, cmd)
          /\ chan' = Append(chan, cmd)
          /\ enq' = Append(enq, n)
  /\ UNCHANGED <<wpc, batch, flush_waiters, storeVars, npub, session_of, hb, flush,
                 passed, lost, signalled, subVars, shutVars, apiVars, pushVars>>

\* MessageWriter::flush is called: oneshot::channel(), tx.send(Flush(tx)).await,
\* which completes at once or waits for a slot; then rx.await
FlushCall(f) ==
  /\ engine = "running"
  /\ f \in 1..MaxFlush
  /\ flush[f].st = "none"
  /\ \A g \in 1..(f - 1) : flush[g].st # "none"
  /\ IF wpc = "done"
     THEN /\ flush' = [flush EXCEPT ![f] = [st |-> "err", before |-> Accepted, lost |-> lost]]
          /\ UNCHANGED <<chan, sendq>>
     ELSE IF TrySendFull(chan, sendq)
     THEN /\ flush' = [flush EXCEPT ![f] = [st |-> "sending", before |-> Accepted, lost |-> lost]]
          /\ sendq' = Append(sendq, FlushCmd(f))
          /\ chan' = chan
     ELSE /\ flush' = [flush EXCEPT ![f] = [st |-> "waiting", before |-> Accepted, lost |-> lost]]
          /\ chan' = Append(chan, FlushCmd(f))
          /\ UNCHANGED sendq
  /\ UNCHANGED <<wpc, batch, flush_waiters, storeVars, npub, session_of, result, hb,
                 ghostVars, subVars, shutVars, apiVars, pushVars>>

\* a waiting tx.send(Flush(tx)).await completes, rx.await starts
FlushSend(f) ==
  /\ f \in 1..MaxFlush
  /\ flush[f].st = "sending"
  /\ IF wpc = "done"
     THEN /\ flush' = [flush EXCEPT ![f].st = "err"]
          /\ sendq' = Without(sendq, FlushCmd(f))
          /\ chan' = chan
     ELSE /\ HasPermit(FlushCmd(f))
          /\ flush' = [flush EXCEPT ![f].st = "waiting"]
          /\ sendq' = Without(sendq, FlushCmd(f))
          /\ chan' = Append(chan, FlushCmd(f))
  /\ UNCHANGED <<wpc, batch, flush_waiters, storeVars, npub, session_of, result, hb,
                 ghostVars, subVars, shutVars, apiVars, pushVars>>

\* whether the oneshot sender of flush f still exists somewhere
WaiterHeld(f) ==
  \/ f \in Range(flush_waiters)
  \/ \E i \in 1..Len(chan) : chan[i] = FlushCmd(f)

\* rx.await completes: Ok when the sender was sent on, Err when it was dropped
FlushReturn(f) ==
  /\ f \in 1..MaxFlush
  /\ flush[f].st = "waiting"
  /\ IF f \in signalled
     THEN flush' = [flush EXCEPT ![f].st = "ok"]
     ELSE /\ ~WaiterHeld(f)
          /\ flush' = [flush EXCEPT ![f].st = "err"]
  /\ UNCHANGED <<writerVars, storeVars, npub, session_of, result, hb, sendq, ghostVars,
                 subVars, shutVars, apiVars, pushVars>>

\* the caller drops the flush() future while it waits on the barrier (a timeout
\* or select around it): the Flush command stays in the channel
FlushCancel(f) ==
  /\ f \in 1..MaxFlush
  /\ flush[f].st = "waiting"
  /\ f \notin signalled
  /\ flush' = [flush EXCEPT ![f].st = "cancelled"]
  /\ UNCHANGED <<writerVars, storeVars, npub, session_of, result, hb, sendq, ghostVars,
                 subVars, shutVars, apiVars, pushVars>>

\* PubSub::mark_delivered -> Database::mark_delivered
MarkDelivered(ids) ==
  /\ engine = "running"
  /\ ids # {}
  /\ rows' = MarkDeliveredRows(rows, ids, now)
  /\ UNCHANGED <<writerVars, next_id, now, nfail, callVars, ghostVars, subVars, shutVars,
                 apiVars, pushVars>>

\* -------------------------------------------------------------- subscriber
NoTask == [session_id |-> "", pc |-> "none", last_id |-> 0, start |-> 0,
           msgs |-> <<>>, shutdown |-> FALSE, listening |-> FALSE, missed |-> {}, armed |-> 0]

\* the number the next Subscriber::new call gets
NextTask == Cardinality({t \in 1..MaxSubs : task[t].pc # "none"}) + 1

\* NewSubscriber with the cursor starting at 0 instead of max_id()
NewSubscriberFromZero(s, id) ==
  [session_id |-> s, pc |-> IF backend = "postgres" THEN "catchup" ELSE "check",
   last_id |-> 0, start |-> id, msgs |-> <<>>, shutdown |-> FALSE,
   listening |-> FALSE, missed |-> {}, armed |-> 0]

\* NewSubscriber with the cursor placed behind everything accepted so far:
\* the ids the queued and drafted messages are going to get are skipped
NewSubscriberPastQueue(s, id) ==
  [session_id |-> s, pc |-> IF backend = "postgres" THEN "catchup" ELSE "check",
   last_id |-> id + Len(chan) + Len(batch), start |-> id + Len(chan) + Len(batch),
   msgs |-> <<>>, shutdown |-> FALSE, listening |-> FALSE, missed |-> {}, armed |-> 0]

\* Subscriber::new once max_id() returned id: last_id starts at id, the task is
\* spawned at the top of polling_subscriber_loop
NewSubscriber(s, id) ==
  [session_id |-> s, pc |-> IF backend = "postgres" THEN "catchup" ELSE "check",
   last_id |-> id, start |-> id, msgs |-> <<>>, shutdown |-> FALSE,
   listening |-> FALSE, missed |-> {}, armed |-> 0]

\* Subscribe without the contains_key check: a subscriber is created and
\* inserted also when the session is registered
SubscribeNoCheck(s) ==
  /\ engine = "running"
  /\ stopping = 0
  /\ NextTask <= MaxSubs
  /\ \E ok \in StoreOutcomes :
       IF ok
       THEN /\ task' = [task EXCEPT ![NextTask] = NewSubscriber(s, MaxId(rows))]
            /\ registry' = [registry EXCEPT ![s] = NextTask]
            /\ nfail' = nfail
            /\ ret' = [op |-> "subscribe", session_id |-> s, val |-> "Ok"]
            /\ subscribed' = subscribed \cup {s}
       ELSE /\ UNCHANGED <<task, registry, subscribed>>
            /\ nfail' = nfail + 1
            /\ ret' = [op |-> "subscribe", session_id |-> s, val |-> "Database"]
  /\ UNCHANGED <<writerVars, rows, next_id, now, callVars, ghostVars, delivered, shutVars,
                 cleaning, pushVars>>

\* Subscribe with the task spawned and registered before max_id() is read:
\* when max_id fails the error is returned but the subscriber stays
SubscribeSpawnsFirst(s) ==
  /\ engine = "running"
  /\ stopping = 0
  /\ IF registry[s] # 0
     THEN /\ ret' = [op |-> "subscribe", session_id |-> s, val |-> "Config"]
          /\ UNCHANGED <<task, registry, subscribed, nfail>>
     ELSE /\ NextTask <= MaxSubs
          /\ task' = [task EXCEPT ![NextTask] = NewSubscriber(s, MaxId(rows))]
          /\ registry' = [registry EXCEPT ![s] = NextTask]
          /\ \E ok \in StoreOutcomes :
               IF ok
               THEN /\ nfail' = nfail
                    /\ ret' = [op |-> "subscribe", session_id |-> s, val |-> "Ok"]
                    /\ subscribed' = subscribed \cup {s}
               ELSE /\ UNCHANGED subscribed
                    /\ nfail' = nfail + 1
                    /\ ret' = [op |-> "subscribe", session_id |-> s, val |-> "Database"]
  /\ UNCHANGED <<writerVars, rows, next_id, now, callVars, ghostVars, delivered, shutVars,
                 cleaning, pushVars>>

\* PubSub::subscribe under the registry's write lock: Err(Config) when the
\* session is registered; else Subscriber::new (max_id, spawn) and the insert
\* into the registry; when max_id fails its error is returned and nothing is
\* registered
Subscribe(s) ==
  /\ engine = "running"
  /\ stopping = 0
  /\ IF registry[s] # 0
     THEN /\ ret' = [op |-> "subscribe", session_id |-> s, val |-> "Config"]
          /\ UNCHANGED <<task, registry, subscribed, nfail>>
     ELSE /\ NextTask <= MaxSubs
          /\ \E ok \in StoreOutcomes :
               IF ok
               THEN /\ task' = [task EXCEPT ![NextTask] = NewSubscriber(s, MaxId(rows))]
                    /\ registry' = [registry EXCEPT ![s] = NextTask]
                    /\ nfail' = nfail
                    /\ ret' = [op |-> "subscribe", session_id |-> s, val |-> "Ok"]
                    /\ subscribed' = subscribed \cup {s}
               ELSE /\ UNCHANGED <<task, registry, subscribed>>
                    /\ nfail' = nfail + 1
                    /\ ret' = [op |-> "subscribe", session_id |-> s, val |-> "Database"]
  /\ UNCHANGED <<writerVars, rows, next_id, now, callVars, ghostVars, delivered, shutVars,
                 cleaning, pushVars>>

\* `while !shutdown.load(..)` at the top of polling_subscriber_loop: leave the
\* loop, or load last_id and issue fetch_after
SubCheck(t) ==
  /\ task[t].pc = "check"
  /\ task' = [task EXCEPT ![t].pc = IF task[t].shutdown THEN "stopped" ELSE "fetch"]
  /\ UNCHANGED <<writerVars, storeVars, callVars, ghostVars, registry, delivered, shutVars,
                 apiVars, pushVars>>

\* the ids of the rows that fetch_after calls of task t which returned Err
\* would have returned, with the call that fails now (the error log's record)
Missed(t, limit) ==
  task[t].missed \cup Ids(FetchAfter(rows, task[t].session_id, task[t].last_id, limit))

\* SubFetch leaving the loop when fetch_after returns Err
SubFetchExitOnError(t) ==
  /\ task[t].pc = "fetch"
  /\ \E ok \in StoreOutcomes :
       IF ok
       THEN LET got == FetchAfter(rows, task[t].session_id, task[t].last_id, PollLimit)
            IN  /\ task' = [task EXCEPT ![t].msgs = got,
                                        ![t].pc = IF got = <<>> THEN "sleep" ELSE "deliver"]
                /\ nfail' = nfail
       ELSE /\ task' = [task EXCEPT ![t].pc = "stopped", ![t].missed = Missed(t, PollLimit)]
            /\ nfail' = nfail + 1
  /\ UNCHANGED <<writerVars, rows, next_id, now, callVars, ghostVars, registry,
                 delivered, shutVars, apiVars, pushVars>>

\* db.fetch_after(&session_id, current_last_id, 100).await returns: Ok with the
\* rows the query finds, or Err (logged; the cursor stays)
SubFetch(t) ==
  /\ task[t].pc = "fetch"
  /\ \E ok \in StoreOutcomes :
       IF ok
       THEN LET got == FetchAfter(rows, task[t].session_id, task[t].last_id, PollLimit)
            IN  /\ task' = [task EXCEPT ![t].msgs = got,
                                        ![t].pc = IF got = <<>> THEN "sleep" ELSE "deliver"]
                /\ nfail' = nfail
       ELSE /\ task' = [task EXCEPT ![t].pc = "sleep", ![t].missed = Missed(t, PollLimit)]
            /\ nfail' = nfail + 1
  /\ UNCHANGED <<writerVars, rows, next_id, now, callVars, ghostVars, registry,
                 delivered, shutVars, apiVars, pushVars>>

\* one turn of `for msg in messages`: callback(msg), last_id.store(msg_id)
SubDeliver(t) ==
  /\ task[t].pc = "deliver"
  /\ LET msg == Head(task[t].msgs) IN
       /\ delivered' = [delivered EXCEPT ![t] = Append(delivered[t], msg)]
       /\ task' = [task EXCEPT ![t].last_id = msg.id,
                               ![t].msgs = Tail(task[t].msgs),
                               ![t].pc = IF Tail(task[t].msgs) = <<>>
                                         THEN "sleep" ELSE "deliver"]
  /\ UNCHANGED <<writerVars, storeVars, callVars, ghostVars, registry, shutVars,
                 apiVars, pushVars>>

\* SubSleep without the flag watcher: the whole interval is slept and the
\* loop condition is evaluated afterwards
SubSleepFullInterval(t) ==
  /\ task[t].pc = "sleep"
  /\ task' = [task EXCEPT ![t].pc = "check"]
  /\ UNCHANGED <<writerVars, storeVars, callVars, ghostVars, registry, delivered, shutVars,
                 apiVars, pushVars>>

\* the select! after the poll: the flag watcher sees the flag and the loop is
\* left, or the interval elapses and the loop condition is evaluated again
SubSleep(t) ==
  /\ task[t].pc = "sleep"
  /\ task' = [task EXCEPT ![t].pc = IF task[t].shutdown THEN "stopped" ELSE "fetch"]
  /\ UNCHANGED <<writerVars, storeVars, callVars, ghostVars, registry, delivered, shutVars,
                 apiVars, pushVars>>

SubscriberTask(t) ==
  \/ SubCheck(t)
  \/ SubFetch(t)
  \/ SubDeliver(t)
  \/ SubSleep(t)

\* ---------------------------------------------------------------- shutdown
\* no call still borrows the engine
NoCallInProgress ==
  /\ \A n \in 1..npub : result[n] # "sending"
  /\ \A f \in 1..MaxFlush : flush[f].st \notin {"sending", "waiting"}
  /\ stopping = 0
  /\ cleaning.st = "idle"

\* the last reference to the engine is dropped without shutdown (the host
\* replaces or releases its handle): the registry's subscribers are dropped,
\* which detaches their tasks, and the channel's only Sender is dropped
DropHandle ==
  /\ engine = "running"
  /\ NoCallInProgress
  /\ engine' = "dropped"
  /\ registry' = [s \in Sessions |-> 0]
  /\ UNCHANGED <<writerVars, storeVars, callVars, ghostVars, task, delivered, to_stop,
                 stopping, apiVars, pushVars>>

\* WorkerRecvClosed with recv() yielding None as soon as the Sender is gone,
\* whatever the channel still holds
WorkerRecvClosedEarly ==
  /\ wpc = "recv"
  /\ engine = "dropped"
  /\ wpc' = "done"
  /\ UNCHANGED <<chan, batch, flush_waiters, storeVars, callVars, ghostVars, subVars,
                 shutVars, apiVars, pushVars>>

\* rx.recv().await returned None: every Sender is gone and the channel is
\* empty; the loop is left
WorkerRecvClosed ==
  /\ wpc = "recv"
  /\ engine = "dropped"
  /\ chan = <<>>
  /\ wpc' = "done"
  /\ UNCHANGED <<chan, batch, flush_waiters, storeVars, callVars, ghostVars, subVars,
                 shutVars, apiVars, pushVars>>

\* PubSub::shutdown is called: the registry is drained under its write lock
ShutdownCall ==
  /\ engine = "running"
  /\ NoCallInProgress
  /\ engine' = "stopping"
  /\ to_stop' = {registry[s] : s \in Sessions} \ {0}
  /\ registry' = [s \in Sessions |-> 0]
  /\ UNCHANGED <<writerVars, storeVars, callVars, ghostVars, task, delivered, stopping,
                 apiVars, pushVars>>

\* Subscriber::stop of the next drained subscriber: the flag is set, then the
\* select! on the task's handle and the 5 s sleep starts
StopNext(t) ==
  /\ engine = "stopping"
  /\ stopping = 0
  /\ t \in to_stop
  /\ task' = [task EXCEPT ![t].shutdown = TRUE]
  /\ stopping' = t
  /\ to_stop' = to_stop \ {t}
  /\ UNCHANGED <<writerVars, storeVars, callVars, ghostVars, registry, delivered, engine,
                 apiVars, pushVars>>

\* stop()'s select!: the task's handle completed
StopJoined ==
  /\ engine = "stopping"
  /\ stopping # 0
  /\ task[stopping].pc = "stopped"
  /\ stopping' = 0
  /\ UNCHANGED <<writerVars, storeVars, callVars, ghostVars, subVars, engine, to_stop,
                 apiVars, pushVars>>

\* stop()'s select!: the 5 s sleep completed first; the handle is dropped, which
\* detaches the task
StopTimeout ==
  /\ engine = "stopping"
  /\ stopping # 0
  /\ task[stopping].pc # "stopped"
  /\ stopping' = 0
  /\ UNCHANGED <<writerVars, storeVars, callVars, ghostVars, subVars, engine, to_stop,
                 apiVars, pushVars>>

\* every subscriber was stopped: MessageWriter::shutdown, tx.send(Shutdown).await
\* (`let _ =`: an error is ignored), which completes at once or waits for a slot
ShutdownWriter ==
  /\ engine = "stopping"
  /\ stopping = 0
  /\ to_stop = {}
  /\ IF wpc = "done"
     THEN /\ engine' = "joining"
          /\ UNCHANGED <<chan, sendq>>
     ELSE IF TrySendFull(chan, sendq)
     THEN /\ engine' = "sending"
          /\ sendq' = Append(sendq, ShutdownCmd)
          /\ chan' = chan
     ELSE /\ engine' = "joining"
          /\ chan' = Append(chan, ShutdownCmd)
          /\ UNCHANGED sendq
  /\ UNCHANGED <<wpc, batch, flush_waiters, storeVars, npub, session_of, result, hb,
                 flush, ghostVars, subVars, to_stop, stopping, apiVars, pushVars>>

\* the waiting tx.send(Shutdown).await completes
ShutdownSend ==
  /\ engine = "sending"
  /\ IF wpc = "done"
     THEN chan' = chan
     ELSE /\ HasPermit(ShutdownCmd)
          /\ chan' = Append(chan, ShutdownCmd)
  /\ sendq' = Without(sendq, ShutdownCmd)
  /\ engine' = "joining"
  /\ UNCHANGED <<wpc, batch, flush_waiters, storeVars, npub, session_of, result, hb,
                 flush, ghostVars, subVars, to_stop, stopping, apiVars, pushVars>>

\* ShutdownJoin returning without awaiting the worker's handle
ShutdownJoinNoWait ==
  /\ engine = "joining"
  /\ engine' = "returned"
  /\ UNCHANGED <<writerVars, storeVars, callVars, ghostVars, subVars, to_stop, stopping,
                 apiVars, pushVars>>

\* self.handle.await completes: the worker task has ended; shutdown returns
ShutdownJoin ==
  /\ engine = "joining"
  /\ wpc = "done"
  /\ engine' = "returned"
  /\ UNCHANGED <<writerVars, storeVars, callVars, ghostVars, subVars, to_stop, stopping,
                 apiVars, pushVars>>


\* ---------------------------------------------------------------- registry
\* the sessions of the registry's keys
Registered == {s \in Sessions : registry[s] # 0}

\* Unsubscribe leaving the subscriber in the registry: it is stopped but not
\* removed
UnsubscribeKeepsEntry(s) ==
  /\ engine = "running"
  /\ stopping = 0
  /\ IF registry[s] = 0
     THEN /\ ret' = [op |-> "unsubscribe", session_id |-> s, val |-> "Ok"]
          /\ UNCHANGED <<registry, task, stopping>>
     ELSE /\ registry' = registry
          /\ task' = [task EXCEPT ![registry[s]].shutdown = TRUE]
          /\ stopping' = registry[s]
          /\ ret' = ret
  /\ UNCHANGED <<writerVars, storeVars, callVars, ghostVars, delivered, engine, to_stop,
                 subscribed, cleaning, pushVars>>

\* PubSub::unsubscribe under the registry's write lock: subscribers.remove, and
\* for a removed subscriber stop() (the flag is set, the select! on the task's
\* handle and the 5 s sleep starts; the lock stays held); Ok at once for a
\* session that is not registered
Unsubscribe(s) ==
  /\ engine = "running"
  /\ stopping = 0
  /\ IF registry[s] = 0
     THEN /\ ret' = [op |-> "unsubscribe", session_id |-> s, val |-> "Ok"]
          /\ UNCHANGED <<registry, task, stopping>>
     ELSE /\ registry' = [registry EXCEPT ![s] = 0]
          /\ task' = [task EXCEPT ![registry[s]].shutdown = TRUE]
          /\ stopping' = registry[s]
          /\ ret' = ret
  /\ UNCHANGED <<writerVars, storeVars, callVars, ghostVars, delivered, engine, to_stop,
                 subscribed, cleaning, pushVars>>

\* unsubscribe's stop(): the task's handle completed; unsubscribe returns Ok
UnsubscribeJoined ==
  /\ engine = "running"
  /\ stopping # 0
  /\ task[stopping].pc = "stopped"
  /\ stopping' = 0
  /\ ret' = [op |-> "unsubscribe", session_id |-> task[stopping].session_id, val |-> "Ok"]
  /\ subscribed' = subscribed \ {task[stopping].session_id}
  /\ UNCHANGED <<writerVars, storeVars, callVars, ghostVars, subVars, engine, to_stop,
                 cleaning, pushVars>>

\* UnsubscribeTimeout aborting the task when the 5 s sleep completes first
UnsubscribeTimeoutAborts ==
  /\ engine = "running"
  /\ stopping # 0
  /\ task[stopping].pc # "stopped"
  /\ stopping' = 0
  /\ task' = [task EXCEPT ![stopping].pc = "stopped", ![stopping].listening = FALSE,
                          ![stopping].msgs = <<>>]
  /\ inbox' = [inbox EXCEPT ![stopping] = <<>>]
  /\ ret' = [op |-> "unsubscribe", session_id |-> task[stopping].session_id, val |-> "Ok"]
  /\ subscribed' = subscribed \ {task[stopping].session_id}
  /\ UNCHANGED <<writerVars, storeVars, callVars, ghostVars, registry, delivered, engine,
                 to_stop, cleaning, backend>>

\* unsubscribe's stop(): the 5 s sleep completed first; the handle is dropped,
\* which detaches the task; unsubscribe returns Ok
UnsubscribeTimeout ==
  /\ engine = "running"
  /\ stopping # 0
  /\ task[stopping].pc # "stopped"
  /\ stopping' = 0
  /\ ret' = [op |-> "unsubscribe", session_id |-> task[stopping].session_id, val |-> "Ok"]
  /\ subscribed' = subscribed \ {task[stopping].session_id}
  /\ UNCHANGED <<writerVars, storeVars, callVars, ghostVars, subVars, engine, to_stop,
                 cleaning, pushVars>>

\* PubSub::is_subscribed under the registry's read lock
IsSubscribed(s) ==
  /\ engine = "running"
  /\ stopping = 0
  /\ ret' = [op |-> "is_subscribed", session_id |-> s, val |-> registry[s] # 0]
  /\ UNCHANGED <<writerVars, storeVars, callVars, ghostVars, subVars, shutVars,
                 subscribed, cleaning, pushVars>>

\* PubSub::subscription_count under the registry's read lock
SubscriptionCount ==
  /\ engine = "running"
  /\ stopping = 0
  /\ ret' = [op |-> "subscription_count", session_id |-> "",
             val |-> Cardinality(Registered)]
  /\ UNCHANGED <<writerVars, storeVars, callVars, ghostVars, subVars, shutVars,
                 subscribed, cleaning, pushVars>>

(***************************************************************************)
(* The store's retention sweep, direct reads, and the clock.               *)
(***************************************************************************)

\* the wall clock advances (Utc::now() is read by Message::new, mark_delivered
\* and the two sweeps)
Tick ==
  /\ now < MaxTime
  /\ now' = now + 1
  /\ UNCHANGED <<writerVars, rows, next_id, nfail, callVars, ghostVars, subVars, shutVars,
                 apiVars, pushVars>>

\* DELETE .. WHERE delivered_at IS NOT NULL AND delivered_at <= $1
CleanupDeliveredInclusive(rs, cutoff) ==
  SelectSeq(rs, LAMBDA r : ~(r.delivered_at # NULL /\ r.delivered_at <= cutoff))

\* cleanup_delivered: DELETE .. WHERE delivered_at IS NOT NULL AND delivered_at < $1
CleanupDeliveredRows(rs, cutoff) ==
  SelectSeq(rs, LAMBDA r : ~(r.delivered_at # NULL /\ r.delivered_at < cutoff))

\* cleanup_undelivered: DELETE .. WHERE delivered_at IS NULL AND created_at < $1
CleanupUndeliveredRows(rs, cutoff) ==
  SelectSeq(rs, LAMBDA r : ~(r.delivered_at = NULL /\ r.created_at < cutoff))

\* PubSub::cleanup up to the return of db.cleanup_delivered(delivered_retention):
\* rows_affected is kept for the result, an Err is returned at once by `?`
Cleanup ==
  /\ engine = "running"
  /\ cleaning.st = "idle"
  /\ \E ok \in StoreOutcomes :
       IF ok
       THEN /\ rows' = CleanupDeliveredRows(rows, now - DeliveredRetention)
            /\ cleaning' = [st |-> "undelivered", delivered |-> Len(rows) - Len(rows')]
            /\ UNCHANGED <<ret, nfail>>
       ELSE /\ ret' = [op |-> "cleanup", session_id |-> "", val |-> "Database",
                       delivered |-> 0, undelivered |-> 0]
            /\ nfail' = nfail + 1
            /\ UNCHANGED <<rows, cleaning>>
  /\ UNCHANGED <<writerVars, next_id, now, callVars, ghostVars, subVars, shutVars,
                 subscribed, pushVars>>

\* PubSub::cleanup from db.cleanup_undelivered(undelivered_retention) to its
\* return of Ok((delivered, undelivered)) or of the Err
CleanupUndelivered ==
  /\ cleaning.st = "undelivered"
  /\ cleaning' = [st |-> "idle", delivered |-> 0]
  /\ \E ok \in StoreOutcomes :
       IF ok
       THEN /\ rows' = CleanupUndeliveredRows(rows, now - UndeliveredRetention)
            /\ ret' = [op |-> "cleanup", session_id |-> "", val |-> "Ok",
                       delivered |-> cleaning.delivered,
                       undelivered |-> Len(rows) - Len(rows')]
            /\ nfail' = nfail
       ELSE /\ ret' = [op |-> "cleanup", session_id |-> "", val |-> "Database",
                       delivered |-> 0, undelivered |-> 0]
            /\ nfail' = nfail + 1
            /\ rows' = rows
  /\ UNCHANGED <<writerVars, next_id, now, callVars, ghostVars, subVars, shutVars,
                 subscribed, pushVars>>

\* a direct db.fetch_after(session_id, after_id, limit), as the tests of the
\* store make it
Fetch(session_id, after_id, limit) ==
  /\ engine = "running"
  /\ ret' = [op |-> "fetch_after", session_id |-> session_id, after_id |-> after_id,
             limit |-> limit, val |-> FetchAfter(rows, session_id, after_id, limit)]
  /\ UNCHANGED <<writerVars, storeVars, callVars, ghostVars, subVars, shutVars,
                 subscribed, cleaning, pushVars>>

(***************************************************************************)
(* postgres_subscriber_loop: the LISTEN/NOTIFY subscriber task.  A         *)
(* notification's payload is the row id as decimal text (NEW.id::text),    *)
(* which parse::<i64>() turns back into the same id for every BIGINT, so   *)
(* the buffered notifications are kept as ids.                             *)
(***************************************************************************)

\* the task ends: its listener is dropped with what it had buffered
EndTask(t) ==
  /\ task' = [task EXCEPT ![t].pc = "stopped", ![t].listening = FALSE, ![t].msgs = <<>>]
  /\ inbox' = [inbox EXCEPT ![t] = <<>>]

\* the catch-up db.fetch_after(&session_id, current_last_id, 1000).await returns
PushCatchup(t) ==
  /\ task[t].pc = "catchup"
  /\ \E ok \in StoreOutcomes :
       IF ok
       THEN LET got == FetchAfter(rows, task[t].session_id, task[t].last_id, CatchupLimit)
            IN  /\ task' = [task EXCEPT ![t].msgs = got,
                                        ![t].pc = IF got = <<>> THEN "listen" ELSE "cdeliver"]
                /\ nfail' = nfail
       ELSE /\ task' = [task EXCEPT ![t].pc = "listen",
                                    ![t].missed = Missed(t, CatchupLimit)]
            /\ nfail' = nfail + 1
  /\ UNCHANGED <<writerVars, rows, next_id, now, callVars, ghostVars, registry,
                 delivered, shutVars, apiVars, pushVars>>

\* one turn of the catch-up's `for msg in messages`
PushCatchupDeliver(t) ==
  /\ task[t].pc = "cdeliver"
  /\ LET msg == Head(task[t].msgs) IN
       /\ delivered' = [delivered EXCEPT ![t] = Append(delivered[t], msg)]
       /\ task' = [task EXCEPT ![t].last_id = msg.id,
                               ![t].msgs = Tail(task[t].msgs),
                               ![t].pc = IF Tail(task[t].msgs) = <<>>
                                         THEN "listen" ELSE "cdeliver"]
  /\ UNCHANGED <<writerVars, storeVars, callVars, ghostVars, registry, shutVars,
                 apiVars, pushVars>>

\* pg.listen(&session_id).await returns: the listener is armed (armed notes
\* the last id assigned before that), or the task returns on the error
PushListen(t) ==
  /\ task[t].pc = "listen"
  /\ \E ok \in StoreOutcomes :
       IF ok
       THEN /\ task' = [task EXCEPT ![t].pc = "pcheck", ![t].listening = TRUE,
                                    ![t].armed = next_id - 1]
            /\ UNCHANGED <<nfail, inbox>>
       ELSE /\ EndTask(t)
            /\ nfail' = nfail + 1
  /\ UNCHANGED <<writerVars, rows, next_id, now, callVars, ghostVars, registry,
                 delivered, shutVars, apiVars, backend>>

\* the loop condition `while !shutdown.load(..)`
PushCheck(t) ==
  /\ task[t].pc = "pcheck"
  /\ IF task[t].shutdown
     THEN EndTask(t)
     ELSE task' = [task EXCEPT ![t].pc = "wait"] /\ UNCHANGED inbox
  /\ UNCHANGED <<writerVars, storeVars, callVars, ghostVars, registry, delivered, shutVars,
                 apiVars, backend>>

\* PushRecv with `msg_id >= current`
PushRecvInclusive(t) ==
  /\ task[t].pc = "wait"
  /\ inbox[t] # <<>>
  /\ inbox' = [inbox EXCEPT ![t] = Tail(inbox[t])]
  /\ task' = [task EXCEPT ![t].pc = IF Head(inbox[t]) >= task[t].last_id
                                    THEN "pfetch" ELSE "pcheck"]
  /\ UNCHANGED <<writerVars, storeVars, callVars, ghostVars, registry, delivered, shutVars,
                 apiVars, backend>>

\* select!: listener.recv() yields a notification; its id is compared with the
\* cursor and the fetch is made only for a larger id
PushRecv(t) ==
  /\ task[t].pc = "wait"
  /\ inbox[t] # <<>>
  /\ inbox' = [inbox EXCEPT ![t] = Tail(inbox[t])]
  /\ task' = [task EXCEPT ![t].pc = IF Head(inbox[t]) > task[t].last_id
                                    THEN "pfetch" ELSE "pcheck"]
  /\ UNCHANGED <<writerVars, storeVars, callVars, ghostVars, registry, delivered, shutVars,
                 apiVars, backend>>

\* PushRecvError with the loop going on after the error (`continue`)
PushRecvErrorContinues(t) ==
  /\ task[t].pc = "wait"
  /\ nfail < MaxFail
  /\ nfail' = nfail + 1
  /\ task' = [task EXCEPT ![t].pc = "pcheck"]
  /\ UNCHANGED <<writerVars, rows, next_id, now, callVars, ghostVars, registry,
                 delivered, shutVars, apiVars, pushVars>>

\* select!: listener.recv() yields Err: the loop is left
PushRecvError(t) ==
  /\ task[t].pc = "wait"
  /\ nfail < MaxFail
  /\ nfail' = nfail + 1
  /\ EndTask(t)
  /\ UNCHANGED <<writerVars, rows, next_id, now, callVars, ghostVars, registry,
                 delivered, shutVars, apiVars, backend>>

\* select!: the 1 s sleep completes; the loop is left if the flag is set, else
\* its condition is evaluated again
PushSleep(t) ==
  /\ task[t].pc = "wait"
  /\ IF task[t].shutdown
     THEN EndTask(t)
     ELSE task' = [task EXCEPT ![t].pc = "pcheck"] /\ UNCHANGED inbox
  /\ UNCHANGED <<writerVars, storeVars, callVars, ghostVars, registry, delivered, shutVars,
                 apiVars, backend>>

\* db.fetch_after(&session_id, current, 100).await returns
PushFetch(t) ==
  /\ task[t].pc = "pfetch"
  /\ \E ok \in StoreOutcomes :
       IF ok
       THEN LET got == FetchAfter(rows, task[t].session_id, task[t].last_id, PollLimit)
            IN  /\ task' = [task EXCEPT ![t].msgs = got,
                                        ![t].pc = IF got = <<>> THEN "pcheck" ELSE "pdeliver"]
                /\ nfail' = nfail
       ELSE /\ task' = [task EXCEPT ![t].pc = "pcheck", ![t].missed = Missed(t, PollLimit)]
            /\ nfail' = nfail + 1
  /\ UNCHANGED <<writerVars, rows, next_id, now, callVars, ghostVars, registry,
                 delivered, shutVars, apiVars, pushVars>>

\* one turn of the main loop's `for msg in messages`
PushDeliver(t) ==
  /\ task[t].pc = "pdeliver"
  /\ LET msg == Head(task[t].msgs) IN
       /\ delivered' = [delivered EXCEPT ![t] = Append(delivered[t], msg)]
       /\ task' = [task EXCEPT ![t].last_id = msg.id,
                               ![t].msgs = Tail(task[t].msgs),
                               ![t].pc = IF Tail(task[t].msgs) = <<>>
                                         THEN "pcheck" ELSE "pdeliver"]
  /\ UNCHANGED <<writerVars, storeVars, callVars, ghostVars, registry, shutVars,
                 apiVars, pushVars>>

PushTask(t) ==
  \/ PushCatchup(t)
  \/ PushCatchupDeliver(t)
  \/ PushListen(t)
  \/ PushCheck(t)
  \/ PushRecv(t)
  \/ PushRecvError(t)
  \/ PushSleep(t)
  \/ PushFetch(t)
  \/ PushDeliver(t)
\* ----------------------------------------------------------- specifications
MaxN == IF MaxMsgs > MaxPub THEN MaxMsgs ELSE MaxPub

\* the engine built on DbPool variant b
InitWith(b) ==
  /\ backend = b
  /\ chan = <<>>
  /\ sendq = <<>>
  /\ wpc = "recv"
  /\ batch = <<>>
  /\ flush_waiters = <<>>
  /\ rows = <<>>
  /\ next_id = 1
  /\ now = 1
  /\ nfail = 0
  /\ npub = 0
  /\ session_of = [n \in 1..MaxN |-> ""]
  /\ result = [n \in 1..MaxN |-> "none"]
  /\ hb = [n \in 1..MaxN |-> {}]
  /\ flush = [f \in 1..MaxFlush |-> [st |-> "none", before |-> {}, lost |-> {}]]
  /\ enq = <<>>
  /\ passed = {}
  /\ lost = {}
  /\ signalled = {}
  /\ registry = [s \in Sessions |-> 0]
  /\ task = [t \in 1..MaxSubs |-> NoTask]
  /\ delivered = [t \in 1..MaxSubs |-> <<>>]
  /\ engine = "running"
  /\ to_stop = {}
  /\ stopping = 0
  /\ ret = [op |-> "none", session_id |-> "", val |-> ""]
  /\ subscribed = {}
  /\ cleaning = [st |-> "idle", delivered |-> 0]
  /\ inbox = [t \in 1..MaxSubs |-> <<>>]

\* PubSub::new on a SQLite URL
Init == InitWith("sqlite")

\* PubSub::new on a Postgres URL
InitPostgres == InitWith("postgres")

\* the writer: publishers, flush callers, the worker and shutdown
NextWriter ==
  \/ Worker
  \/ \E s \in WriterSessions : Enqueue(MaxMsgs, s)
  \/ \E s \in WriterSessions : EnqueueAsyncCall(MaxMsgs, s)
  \/ \E n \in 1..MaxMsgs : EnqueueAsyncDone(n)
  \/ \E f \in 1..MaxFlush : FlushCall(f)
  \/ \E f \in 1..MaxFlush : FlushSend(f)
  \/ \E f \in 1..MaxFlush : FlushReturn(f)
  \/ \E f \in 1..MaxFlush : FlushCancel(f)
  \/ ShutdownCall
  \/ ShutdownWriter
  \/ ShutdownSend
  \/ ShutdownJoin

SpecWriter == Init /\ [][NextWriter]_vars

\* delivery while the engine runs: publishers (broadcast), the worker's loop
\* (no Shutdown is sent, so its shutdown path is not taken), subscribers and
\* acknowledgements
Next ==
  \/ WorkerRecv
  \/ WorkerFill
  \/ WorkerWriteDone
  \/ \E s \in Sessions : Enqueue(MaxPub, s)
  \/ \E s \in Sessions : Subscribe(s)
  \/ \E t \in 1..MaxSubs : SubscriberTask(t)
  \/ \E id \in {rows[i].id : i \in 1..Len(rows)} : MarkDelivered({id})

Spec == Init /\ [][Next]_vars

\* the engine's shutdown: publishers, the worker, subscribers and shutdown
NextShutdown ==
  \/ Worker
  \/ \E s \in Sessions : Enqueue(MaxPub, s)
  \/ \E s \in Sessions : Subscribe(s)
  \/ \E t \in 1..MaxSubs : SubscriberTask(t)
  \/ ShutdownCall
  \/ \E t \in 1..MaxSubs : StopNext(t)
  \/ StopJoined
  \/ StopTimeout
  \/ ShutdownWriter
  \/ ShutdownSend
  \/ ShutdownJoin

SpecShutdown == Init /\ [][NextShutdown]_vars


\* the registry: subscribe, unsubscribe, the registry's queries and the
\* subscriber tasks
NextRegistry ==
  \/ \E s \in Sessions : Subscribe(s)
  \/ \E s \in Sessions : Unsubscribe(s)
  \/ UnsubscribeJoined
  \/ UnsubscribeTimeout
  \/ \E s \in Sessions : IsSubscribed(s)
  \/ SubscriptionCount
  \/ \E t \in 1..MaxSubs : SubCheck(t)
  \/ \E t \in 1..MaxSubs : SubFetch(t)
  \/ \E t \in 1..MaxSubs : SubSleep(t)

SpecRegistry == Init /\ [][NextRegistry]_vars

\* unsubscribe during delivery: publishers, the worker's loop, subscribe,
\* unsubscribe and the subscriber tasks
NextUnsubscribe ==
  \/ WorkerRecv
  \/ WorkerFill
  \/ WorkerWriteDone
  \/ \E s \in Sessions : Enqueue(MaxPub, s)
  \/ \E s \in Sessions : Subscribe(s)
  \/ \E s \in Sessions : Unsubscribe(s)
  \/ UnsubscribeJoined
  \/ UnsubscribeTimeout
  \/ \E t \in 1..MaxSubs : SubscriberTask(t)

SpecUnsubscribe == Init /\ [][NextUnsubscribe]_vars

\* the store under the writer, mark_delivered, the retention sweep and the clock
NextStore ==
  \/ WorkerRecv
  \/ WorkerFill
  \/ WorkerWriteDone
  \/ \E s \in WriterSessions : Enqueue(MaxMsgs, s)
  \/ \E id \in {rows[i].id : i \in 1..Len(rows)} : MarkDelivered({id})
  \/ Cleanup
  \/ CleanupUndelivered
  \/ Tick

SpecStore == Init /\ [][NextStore]_vars

\* one subscribed session on either backend, under the writer, mark_delivered,
\* the retention sweep and the clock
NextCursor ==
  \/ WorkerRecv
  \/ WorkerFill
  \/ WorkerWriteDone
  \/ \E s \in WriterSessions : Enqueue(MaxPub, s)
  \/ \E s \in WriterSessions : Subscribe(s)
  \/ \E t \in 1..MaxSubs : SubscriberTask(t)
  \/ \E t \in 1..MaxSubs : PushTask(t)
  \/ \E id \in {rows[i].id : i \in 1..Len(rows)} : MarkDelivered({id})
  \/ Cleanup
  \/ CleanupUndelivered
  \/ Tick

SpecCursor == (Init \/ InitPostgres) /\ [][NextCursor]_vars

\* one session subscribed on Postgres, under the writer and mark_delivered
NextPush ==
  \/ WorkerRecv
  \/ WorkerFill
  \/ WorkerWriteDone
  \/ \E s \in WriterSessions : Enqueue(MaxMsgs, s)
  \/ \E s \in WriterSessions : Subscribe(s)
  \/ \E t \in 1..MaxSubs : PushTask(t)
  \/ \E id \in {rows[i].id : i \in 1..Len(rows)} : MarkDelivered({id})

SpecPush == InitPostgres /\ [][NextPush]_vars

\* one session on Postgres with the registry's calls: the writer, subscribe,
\* unsubscribe, is_subscribed and the push subscriber tasks
NextPushRegistry ==
  \/ WorkerRecv
  \/ WorkerFill
  \/ WorkerWriteDone
  \/ \E s \in WriterSessions : Enqueue(MaxPub, s)
  \/ \E s \in WriterSessions : Subscribe(s)
  \/ \E s \in WriterSessions : Unsubscribe(s)
  \/ UnsubscribeJoined
  \/ UnsubscribeTimeout
  \/ \E s \in WriterSessions : IsSubscribed(s)
  \/ \E t \in 1..MaxSubs : PushTask(t)

SpecPushRegistry == InitPostgres /\ [][NextPushRegistry]_vars

\* a subscriber's life on either backend: the writer, subscribe, unsubscribe
\* with its stop(), and the polling and push subscriber tasks
NextLifecycle ==
  \/ WorkerRecv
  \/ WorkerFill
  \/ WorkerWriteDone
  \/ \E s \in WriterSessions : Enqueue(MaxPub, s)
  \/ \E s \in WriterSessions : Subscribe(s)
  \/ \E s \in WriterSessions : Unsubscribe(s)
  \/ UnsubscribeJoined
  \/ UnsubscribeTimeout
  \/ \E t \in 1..MaxSubs : SubscriberTask(t)
  \/ \E t \in 1..MaxSubs : PushTask(t)

SpecLifecycle == (Init \/ InitPostgres) /\ [][NextLifecycle]_vars

\* the subscriber's life with a timer that fires: stop()'s select! completes
\* once the task's handle or the 5 s sleep is ready; nothing is assumed of the
\* subscriber tasks, whose store call or callback may never return
SpecStop ==
  /\ SpecLifecycle
  /\ WF_vars(UnsubscribeJoined \/ UnsubscribeTimeout)

\* delivery to one session's subscriber on either backend, under the writer
\* and mark_delivered
NextDelivery ==
  \/ WorkerRecv
  \/ WorkerFill
  \/ WorkerWriteDone
  \/ \E s \in WriterSessions : Enqueue(MaxMsgs, s)
  \/ \E s \in WriterSessions : Subscribe(s)
  \/ \E t \in 1..MaxSubs : SubscriberTask(t)
  \/ \E t \in 1..MaxSubs : PushTask(t)
  \/ \E id \in {rows[i].id : i \in 1..Len(rows)} : MarkDelivered({id})

SpecDelivery == (Init \/ InitPostgres) /\ [][NextDelivery]_vars

\* publishing that ends before the first subscribe: the worker writes the
\* accepted messages before, during and after the subscribe calls
NextBoundary ==
  \/ WorkerRecv
  \/ WorkerFill
  \/ WorkerWriteDone
  \/ \E s \in WriterSessions : EnqueueBeforeSubscribe(MaxMsgs, s)
  \/ \E s \in WriterSessions : Subscribe(s)
  \/ \E t \in 1..MaxSubs : SubscriberTask(t)
  \/ \E id \in {rows[i].id : i \in 1..Len(rows)} : MarkDelivered({id})

\* with subscriber tasks that the runtime keeps polling
SpecBoundary ==
  /\ Init /\ [][NextBoundary]_vars
  /\ \A t \in 1..MaxSubs : WF_vars(SubscriberTask(t))

\* the writer whose handle is dropped without Shutdown: publishers, flush
\* callers, the worker's loop and the drop
NextDrop ==
  \/ WorkerRecv
  \/ WorkerFill
  \/ WorkerWriteDone
  \/ WorkerRecvClosed
  \/ \E s \in WriterSessions : Enqueue(MaxMsgs, s)
  \/ \E s \in WriterSessions : EnqueueAsyncCall(MaxMsgs, s)
  \/ \E n \in 1..MaxMsgs : EnqueueAsyncDone(n)
  \/ \E f \in 1..MaxFlush : FlushCall(f)
  \/ \E f \in 1..MaxFlush : FlushSend(f)
  \/ \E f \in 1..MaxFlush : FlushReturn(f)
  \/ \E f \in 1..MaxFlush : FlushCancel(f)
  \/ DropHandle

SpecDrop == Init /\ [][NextDrop]_vars

\* the store under the writer, mark_delivered and direct reads
NextFetch ==
  \/ WorkerRecv
  \/ WorkerFill
  \/ WorkerWriteDone
  \/ \E s \in Sessions : Enqueue(MaxMsgs, s)
  \/ \E id \in {rows[i].id : i \in 1..Len(rows)} : MarkDelivered({id})
  \/ \E s \in Sessions, a \in 0..MaxMsgs, limit \in 0..MaxLimit : Fetch(s, a, limit)

SpecFetch == Init /\ [][NextFetch]_vars

\* the writer with a worker that keeps running and waiting senders that are
\* polled once they were handed a slot
SpecWriterFair ==
  /\ SpecWriter
  /\ WF_vars(Worker)
  /\ \A n \in 1..MaxMsgs : WF_vars(EnqueueAsyncDone(n))

\* the writer with the assumptions of SpecWriterFair and flush callers that
\* are polled: a waiting send(Flush) completes once it was handed a slot and
\* rx.await completes once the barrier was signalled or dropped
SpecFlushFair ==
  /\ SpecWriterFair
  /\ \A f \in 1..MaxFlush : WF_vars(FlushSend(f)) /\ WF_vars(FlushReturn(f))

\* the subscriber's life with polling tasks that the runtime keeps polling
SpecPollingStop ==
  /\ SpecLifecycle
  /\ \A t \in 1..MaxSubs : WF_vars(SubscriberTask(t))

\* delivery with subscriber tasks that the runtime keeps polling
SpecPolling ==
  /\ Spec
  /\ \A t \in 1..MaxSubs : WF_vars(SubscriberTask(t))

\* ------------------------------------------------------------- properties
\* the messages a fetch_after(session_id, 0, limit) with a limit above the
\* table's size returns
Fetched(session_id) ==
  LET r == FetchAfter(rows, session_id, 0, Len(rows) + 1)
  IN {r[i].data : i \in 1..Len(r)}

\* the messages in the command channel
InChannel == {chan[i].msg.n : i \in {j \in 1..Len(chan) : chan[j].type = "Message"}}

\* the messages of the table's rows, by ascending id
RowData == [i \in 1..Len(rows) |-> rows[i].data]

IsPrefix(p, q) == Len(p) <= Len(q) /\ \A i \in 1..Len(p) : p[i] = q[i]

\* C1: when flush() has returned Ok, every message accepted before that flush()
\* was called has been passed to insert_batch and is neither in the channel nor
\* in the worker's draft batch; unless its write failed, fetch_after(session, 0,
\* large limit) returns it.
FlushIsBarrier ==
  \A f \in 1..MaxFlush :
    flush[f].st = "ok" =>
      \A n \in flush[f].before :
        /\ n \in passed
        /\ n \notin InChannel
        /\ n \notin Numbers(batch)
        /\ n \notin lost => n \in Fetched(session_of[n])

\* a flush returned Ok after three accepted messages, which took more than one
\* batch, and all of them are stored
FlushIsBarrierWitness ==
  \E f \in 1..MaxFlush :
    /\ flush[f].st = "ok"
    /\ Cardinality(flush[f].before) > BatchSize
    /\ lost = {}
    /\ flush[f].before \subseteq Fetched("s1")

\* C5: a message whose publish returned false is never persisted; when no store
\* write failed the rows are accepted messages, each once, in enqueue order;
\* and after a flush that returned Ok, with no message accepted since it was
\* called, the rows are exactly the accepted messages.
Accounting ==
  /\ \A n \in 1..npub :
       result[n] = "false" => n \notin passed /\ n \notin Range(RowData) /\ n \notin Range(enq)
  /\ lost = {} =>
       /\ IsPrefix(RowData, enq)
       /\ Range(enq) \subseteq Accepted
       /\ \A i, j \in 1..Len(rows) : i # j => rows[i].data # rows[j].data
  /\ \A f \in 1..MaxFlush :
       (flush[f].st = "ok" /\ lost = {} /\ Accepted = flush[f].before) =>
          /\ RowData = enq
          /\ Range(RowData) = Accepted

\* a flush returned Ok, no write failed, two messages were accepted and stored
\* in two batches' worth of rows, and one publish was rejected
AccountingWitness ==
  \E f \in 1..MaxFlush :
    /\ flush[f].st = "ok"
    /\ lost = {}
    /\ Accepted = flush[f].before
    /\ Len(rows) >= 2
    /\ \E n \in 1..npub : result[n] = "false"

\* C6: enqueue can always be called and returns in the same step (it has no
\* waiting state), whatever the worker is doing; it returns true and appends
\* exactly its one Message to the channel when a slot is free, and returns false
\* leaving channel, draft batch and store unchanged when none is.
EnqueueStep == npub' = npub + 1 /\ result'[npub'] \in {"true", "false"}

EnqueueNeverWaits ==
  /\ []((engine = "running" /\ npub < MaxMsgs) => ENABLED Enqueue(MaxMsgs, "s1"))
  /\ [][EnqueueStep =>
          IF Len(chan) + Len(sendq) < MaxQueueSize
          THEN /\ result'[npub'] = "true"
               /\ chan' = Append(chan, MessageCmd(NewMessage(npub', session_of'[npub'])))
               /\ UNCHANGED <<batch, rows, wpc>>
          ELSE /\ result'[npub'] = "false"
               /\ UNCHANGED <<chan, sendq, batch, rows, wpc>>]_vars

\* enqueue has just returned false on a full channel while the worker is in a
\* store write
EnqueueNeverWaitsWitness ==
  /\ wpc = "writing"
  /\ npub >= 1
  /\ result[npub] = "false"
  /\ Len(chan) = MaxQueueSize
  /\ \E n \in 1..npub : result[n] = "true"

\* C7: an enqueue_async that found the channel full stays pending (it has not
\* returned, its message is not dropped) and, with a worker that keeps running,
\* eventually returns Ok; a message whose enqueue_async returned Ok was placed on
\* the channel; an error is returned only when the worker is gone.
EnqueueAsyncWaits ==
  /\ [](\A n \in 1..MaxMsgs :
          /\ result[n] = "ok" => n \in Range(enq)
          /\ result[n] = "err" => wpc = "done"
          /\ result[n] = "sending" =>
               /\ n \notin Range(enq)
               /\ \E c \in Range(sendq) : c.type = "Message" /\ c.msg.n = n)
  /\ \A n \in 1..MaxMsgs : (result[n] = "sending") ~> (result[n] = "ok")

\* an enqueue_async that was still waiting for a slot when a later publish was
\* called (and rejected, the channel being full) has since been placed on the
\* channel, returned Ok and been passed to insert_batch
EnqueueAsyncWaitsWitness ==
  \E n, m \in 1..npub :
    /\ n < m
    /\ result[n] = "ok"
    /\ n \notin hb[m]
    /\ result[m] = "false"
    /\ n \in passed

\* C9: once shutdown has returned the writer's worker task has terminated, and
\* no insert_batch is issued or completes afterwards.
WorkerJoined ==
  /\ [](engine = "returned" => wpc = "done")
  /\ [][engine = "returned" => UNCHANGED <<passed, rows, wpc>>]_vars

\* shutdown has returned after the worker wrote a batch
WorkerJoinedWitness ==
  /\ engine = "returned"
  /\ wpc = "done"
  /\ rows # <<>>

\* C10: when shutdown has returned, every accepted message has been passed to
\* insert_batch and every flush barrier that was on the channel has been
\* signalled.
ShutdownDrains ==
  engine = "returned" =>
    /\ Accepted \subseteq passed
    /\ \A f \in 1..MaxFlush : flush[f].st \in {"ok", "cancelled"} => f \in signalled
    /\ chan = <<>> /\ batch = <<>> /\ flush_waiters = <<>>

\* shutdown has returned after a run with accepted messages and with a flush
\* barrier whose caller had given up waiting; the barrier was signalled
ShutdownDrainsWitness ==
  /\ engine = "returned"
  /\ Cardinality(Accepted) >= 2
  /\ \E f \in 1..MaxFlush : flush[f].st = "cancelled" /\ f \in signalled

\* the position of message n in the table, or 0
RowOf(n) ==
  IF \E i \in 1..Len(rows) : rows[i].data = n
  THEN CHOOSE i \in 1..Len(rows) : rows[i].data = n
  ELSE 0

\* the positions at which subscriber t's callback was invoked with message n
Calls(t, n) == {p \in 1..Len(delivered[t]) : delivered[t][p].data = n}

\* m1 and m2 are of one session and the publish of m1 had returned success
\* before the publish of m2 was called
PublishedBefore(m1, m2) ==
  /\ m1 \in 1..npub /\ m2 \in 1..npub
  /\ session_of[m1] = session_of[m2]
  /\ m1 \in hb[m2]

\* C2: of two messages of one session, the first published (its publish had
\* returned before the other's was called) is stored with the smaller id, and
\* a subscriber whose callback is invoked for both gets it first.
PerSessionOrder ==
  \A m1, m2 \in 1..MaxN :
    PublishedBefore(m1, m2) =>
      /\ (RowOf(m1) # 0 /\ RowOf(m2) # 0) => rows[RowOf(m1)].id < rows[RowOf(m2)].id
      /\ \A t \in 1..MaxSubs :
           \A p1 \in Calls(t, m1), p2 \in Calls(t, m2) : p1 < p2

\* a subscriber's callback was invoked for two messages of its
\* session that were published one after the other
PerSessionOrderWitness ==
  \E t \in 1..MaxSubs, m1, m2 \in 1..MaxN :
    /\ PublishedBefore(m1, m2)
    /\ Calls(t, m1) # {}
    /\ Calls(t, m2) # {}

\* message id is in the table for subscriber t's session, above t's starting
\* cursor and not marked delivered
Pending(t, id) ==
  /\ task[t].pc \notin {"none", "stopped"}
  /\ ~task[t].shutdown
  /\ \E i \in 1..Len(rows) :
       /\ rows[i].id = id
       /\ rows[i].session_id = task[t].session_id
       /\ rows[i].delivered_at = NULL
       /\ id > task[t].start

DeliveredTo(t, id) == \E p \in 1..Len(delivered[t]) : delivered[t][p].id = id

Marked(id) == \E i \in 1..Len(rows) : rows[i].id = id /\ rows[i].delivered_at # NULL

\* C3: a message that is pending for a running polling subscriber is eventually
\* passed to its callback, unless it is marked delivered first; also when more
\* messages are pending than one poll fetches.
PollingDelivers ==
  \A t \in 1..MaxSubs, id \in 1..MaxN :
    Pending(t, id) ~> (DeliveredTo(t, id) \/ Marked(id))

\* a poll has fetched its limit of rows while a further message is pending
\* behind them: a second poll is needed
PollingDeliversWitness ==
  \E t \in 1..MaxSubs, id \in 1..MaxN :
    /\ Pending(t, id)
    /\ task[t].pc = "deliver"
    /\ Len(task[t].msgs) = PollLimit
    /\ \A i \in 1..Len(task[t].msgs) : task[t].msgs[i].id < id

\* C4: a subscriber's callback is never invoked with a message whose id is at
\* most the max_id() its Subscriber::new read.
StartsAtMaxId ==
  \A t \in 1..MaxSubs :
    \A p \in 1..Len(delivered[t]) : delivered[t][p].id > task[t].start

\* a subscriber created when its session already had a stored message that was
\* not marked delivered has delivered a later message, not that one
StartsAtMaxIdWitness ==
  \E t \in 1..MaxSubs :
    /\ Len(delivered[t]) >= 1
    /\ \E i \in 1..Len(rows) :
         /\ rows[i].id <= task[t].start
         /\ rows[i].session_id = task[t].session_id
         /\ rows[i].delivered_at = NULL
         /\ ~DeliveredTo(t, rows[i].id)

\* C8: once shutdown has returned no subscriber callback is invoked.
NoCallbackAfterShutdown ==
  [][engine = "returned" => delivered' = delivered]_vars

\* stop() has been called on subscriber t and has returned
StopReturned(t) == task[t].shutdown /\ stopping # t

\* C11: once unsubscribe has returned, the callback of the subscriber it
\* removed is not invoked.
NoCallbackAfterUnsubscribe ==
  [][\A t \in 1..MaxSubs :
       (engine = "running" /\ StopReturned(t)) => delivered'[t] = delivered[t]]_vars

\* the subscribers of session s that were not asked to stop
Live(s) ==
  {t \in 1..MaxSubs : task[t].pc # "none" /\ task[t].session_id = s /\ ~task[t].shutdown}

\* a step in which a subscribe call returns
SubscribeReturns == ret' # ret /\ ret'.op = "subscribe"

\* C14: a session never has more than one subscriber that was not asked to
\* stop, and the registry's entry is that subscriber; a subscribe for a
\* registered session returns the configuration error and changes neither the
\* registry nor any subscriber; a subscribe succeeds only for a session that was
\* not registered, which it registers.
OneSubscriberPerSession ==
  /\ [](\A s \in Sessions :
          /\ Cardinality(Live(s)) <= 1
          /\ registry[s] # 0 => registry[s] \in Live(s))
  /\ [][SubscribeReturns =>
          IF registry[ret'.session_id] # 0
          THEN ret'.val = "Config" /\ UNCHANGED <<registry, task, delivered>>
          ELSE /\ ret'.val # "Config"
               /\ ret'.val = "Ok" =>
                    /\ registry'[ret'.session_id] # 0
                    /\ task'[registry'[ret'.session_id]].session_id = ret'.session_id
                    /\ ~task'[registry'[ret'.session_id]].shutdown
                    /\ task[registry'[ret'.session_id]].pc = "none"
               /\ ret'.val # "Ok" => UNCHANGED <<registry, task>>]_vars

\* a subscribe for a registered session has returned the configuration error
\* while the other session is registered too
OneSubscriberPerSessionWitness ==
  /\ ret.op = "subscribe"
  /\ ret.val = "Config"
  /\ \A s \in Sessions : Cardinality(Live(s)) = 1 /\ registry[s] # 0

\* C15: is_subscribed(s) returns whether s is a session with a successful
\* subscribe and no unsubscribe since, subscription_count their number, and
\* whenever no unsubscribe is in progress the registry's keys are those
\* sessions; an unsubscribe of a session that is not registered returns Ok and
\* changes nothing.
RegistryTracking ==
  /\ [](/\ ret.op = "is_subscribed" => ret.val = (ret.session_id \in subscribed)
        /\ ret.op = "subscription_count" => ret.val = Cardinality(subscribed)
        /\ stopping = 0 => Registered = subscribed)
  /\ [][(ret' # ret /\ ret'.op = "unsubscribe" /\ stopping = 0) =>
          /\ registry[ret'.session_id] = 0
          /\ ret'.val = "Ok"
          /\ UNCHANGED <<registry, task, subscribed>>]_vars

\* is_subscribed has returned false for a session that was subscribed and then
\* unsubscribed, while the other session is still subscribed
RegistryTrackingWitness ==
  /\ ret.op = "is_subscribed"
  /\ ret.val = FALSE
  /\ \E t \in 1..MaxSubs : task[t].session_id = ret.session_id /\ StopReturned(t)
  /\ Cardinality(subscribed) = 1

\* the stored rows of subscriber t's session above the cursor t started from
OwnRows(t) ==
  {i \in 1..Len(rows) : rows[i].session_id = task[t].session_id /\ rows[i].id > task[t].start}

\* subscriber t has nothing fetched in hand and its next fetch finds nothing
CaughtUp(t) ==
  /\ task[t].pc \in {"check", "fetch", "sleep"}
  /\ FetchAfter(rows, task[t].session_id, task[t].last_id, 1) = <<>>

\* C12: a subscriber's callback is invoked only with stored messages of its own
\* session, with each of them at most once, and a subscriber that is caught up
\* has been invoked once for every message persisted for its session since it
\* subscribed (a message marked delivered before it was fetched may be missing).
SessionIsolation ==
  \A t \in 1..MaxSubs :
    /\ \A p \in 1..Len(delivered[t]) :
         /\ delivered[t][p].session_id = task[t].session_id
         /\ \E i \in OwnRows(t) :
              rows[i].id = delivered[t][p].id /\ rows[i].data = delivered[t][p].data
    /\ \A p, q \in 1..Len(delivered[t]) :
         p < q => delivered[t][p].id < delivered[t][q].id
    /\ Len(delivered[t]) <= Cardinality(OwnRows(t))
    /\ CaughtUp(t) =>
         \A i \in OwnRows(t) : rows[i].delivered_at = NULL => DeliveredTo(t, rows[i].id)
    /\ (CaughtUp(t) /\ \A i \in OwnRows(t) : rows[i].delivered_at = NULL) =>
         Len(delivered[t]) = Cardinality(OwnRows(t))

\* two sessions are subscribed, a message was persisted for each, and each
\* callback was invoked once, with its own session's message
SessionIsolationWitness ==
  /\ Len(rows) = 2
  /\ rows[1].session_id # rows[2].session_id
  /\ \A i \in 1..2 : rows[i].delivered_at = NULL
  /\ \A t \in 1..MaxSubs :
       /\ CaughtUp(t)
       /\ Len(delivered[t]) = 1
       /\ delivered[t][1].session_id = task[t].session_id

\* C20: whenever the worker is inside an insert_batch call, on the loop's path
\* or on the shutdown path, the batch it passes holds at most batch_size
\* messages.
BatchBounded ==
  wpc \in {"writing", "dwriting"} => Len(batch) \in 1..BatchSize

\* the final write of the shutdown path carries messages, after at least a
\* full batch had been written by the loop
BatchBoundedWitness ==
  /\ wpc = "dwriting"
  /\ batch # <<>>
  /\ Len(rows) >= BatchSize

\* the row of rs with the given id, NULL when there is none
RowWithId(rs, id) ==
  IF \E i \in 1..Len(rs) : rs[i].id = id
  THEN rs[CHOOSE i \in 1..Len(rs) : rs[i].id = id]
  ELSE NULL

\* the stamped rows of the table
Stamped(rs) == {id \in Ids(rs) : RowWithId(rs, id).delivered_at # NULL}

\* C16: marking again a row that is already stamped leaves its delivered_at
\* as the first mark set it (so that a later cleanup_delivered treats the row as
\* after a single mark).
FirstStampKept ==
  [][\A id \in Stamped(rows) \cap Ids(rows') :
       RowWithId(rows', id).delivered_at = RowWithId(rows, id).delivered_at]_vars

\* C17: a stamped row stays stamped for as long as it is stored, and no
\* fetch_after, for any session, after_id and limit, returns a stamped row.
StampIsFinal ==
  /\ [][Stamped(rows) \cap Ids(rows') \subseteq Stamped(rows')]_vars
  /\ [](\A s \in Sessions, a \in 0..MaxMsgs, limit \in 0..MaxLimit :
          \A r \in Range(FetchAfter(rows, s, a, limit)) : r.id \notin Stamped(rows))

\* a row stamped at an earlier instant is stored next to an unstamped row of
\* its session with a larger id, which a fetch from 0 returns
StampIsFinalWitness ==
  \E id \in Stamped(rows) :
    /\ RowWithId(rows, id).delivered_at < now
    /\ LET got == FetchAfter(rows, RowWithId(rows, id).session_id, 0, MaxLimit)
       IN  got # <<>> /\ got[1].id > id

\* the step in which cleanup_delivered returns Ok inside PubSub::cleanup
SweepStep == cleaning.st = "idle" /\ cleaning'.st = "undelivered"

\* the rows cleanup_delivered(delivered_retention) is to delete at this instant
Due == {r \in Range(rows) : r.delivered_at # NULL /\ r.delivered_at < now - DeliveredRetention}

\* C19: cleanup_delivered removes the rows whose delivered_at is set and
\* earlier than now - delivered_retention and no other row, keeps the others as
\* they were, and returns the number of rows it removed, which PubSub::cleanup
\* passes on as the first component of its result.
SweepExact ==
  /\ [][SweepStep =>
          /\ Range(rows') = Range(rows) \ Due
          /\ Len(rows') = Cardinality(Range(rows'))
          /\ \A i, j \in 1..Len(rows') : i < j => rows'[i].id < rows'[j].id
          /\ cleaning'.delivered = Cardinality(Due)
          /\ Len(rows) - Len(rows') = Cardinality(Due)]_vars
  /\ [][(cleaning.st = "undelivered" /\ cleaning'.st = "idle" /\ ret'.val = "Ok") =>
          ret'.delivered = cleaning.delivered]_vars

\* cleanup_delivered has just removed a row and has kept a row stamped exactly
\* at the cutoff and an unstamped row created before the cutoff
SweepExactWitness ==
  /\ cleaning.st = "undelivered"
  /\ cleaning.delivered >= 1
  /\ \E r \in Range(rows) : r.delivered_at = now - DeliveredRetention
  /\ \E r \in Range(rows) : r.delivered_at = NULL /\ r.created_at < now - DeliveredRetention

\* the stored rows that fetch_after(s, a, ..) is to choose from
Eligible(s, a) ==
  {r \in Range(rows) : r.session_id = s /\ r.id > a /\ r.delivered_at = NULL}

\* C18: for every session, after_id and limit, fetch_after returns eligible
\* rows only (of the session, above after_id, unstamped), in ascending id order,
\* as many as the limit allows, and an eligible row is missing from the result
\* only when the result holds `limit` rows, all with smaller ids; so every
\* stored unstamped row of the session above after_id is returned when the
\* limit is large enough.
FetchExact ==
  \A s \in Sessions, a \in 0..MaxMsgs, limit \in 0..MaxLimit :
    LET got == FetchAfter(rows, s, a, limit) IN
      /\ Range(got) \subseteq Eligible(s, a)
      /\ \A i, j \in 1..Len(got) : i < j => got[i].id < got[j].id
      /\ Len(got) = IF limit < Cardinality(Eligible(s, a))
                    THEN limit ELSE Cardinality(Eligible(s, a))
      /\ \A r \in Eligible(s, a) \ Range(got) :
           /\ Len(got) = limit
           /\ \A i \in 1..Len(got) : got[i].id < r.id

\* a fetch_after call has returned `limit` rows of a table that holds a further
\* eligible row with a larger id and a row of the session that is stamped or
\* not above after_id
FetchExactWitness ==
  /\ ret.op = "fetch_after"
  /\ ret.val = FetchAfter(rows, ret.session_id, ret.after_id, ret.limit)
  /\ ret.limit >= 1
  /\ Len(ret.val) = ret.limit
  /\ Eligible(ret.session_id, ret.after_id) \ Range(ret.val) # {}
  /\ \E r \in Range(rows) :
       /\ r.session_id = ret.session_id
       /\ r.id <= ret.after_id \/ r.delivered_at # NULL

\* C13: no step of any loop of a subscriber task, polling or push, and no
\* step of anything else lowers a subscriber's cursor.
CursorMonotone ==
  [][\A t \in 1..MaxSubs :
       task[t].pc # "none" => task'[t].last_id >= task[t].last_id]_vars

\* a push subscriber has advanced its cursor in the catch-up and again in the
\* main loop, and a row at or below its cursor has since been removed
CursorMonotoneWitness ==
  \E t \in 1..MaxSubs :
    /\ backend = "postgres"
    /\ task[t].listening
    /\ Len(delivered[t]) = 2
    /\ task[t].last_id = delivered[t][2].id
    /\ delivered[t][1].id \notin Ids(rows)

\* the worker is inside an insert_batch call
Writing == wpc \in {"writing", "dwriting"}

\* C21: an insert_batch call starts only while none is in progress, the
\* worker takes no command and changes neither its draft nor its barriers
\* while one is in progress, and rows are added only by the return of the
\* call in progress.
OneWriteInFlight ==
  /\ [][passed' # passed => (~Writing /\ Writing')]_vars
  /\ [][(Writing /\ Writing') => UNCHANGED <<wpc, batch, flush_waiters, rows, signalled>>]_vars
  /\ [][(Writing /\ Len(chan') < Len(chan)) => FALSE]_vars
  /\ [][Len(rows') > Len(rows) => (Writing /\ ~Writing')]_vars

\* a second insert_batch call is in progress after the first has returned, with
\* a message and a Flush waiting in the channel behind it
OneWriteInFlightWitness ==
  /\ wpc = "writing"
  /\ rows # <<>>
  /\ \E i, j \in 1..Len(chan) : chan[i].type = "Message" /\ chan[j].type = "Flush"

\* C22: a flush() call returns Ok only if no message accepted before it was
\* lost in a failed insert_batch after the call was made.
FlushReportsFailure ==
  \A f \in 1..MaxFlush :
    flush[f].st = "ok" => (lost \ flush[f].lost) \cap flush[f].before = {}

\* C23: while the worker holds a barrier it has taken off the channel and not
\* yet signalled, it takes no command off the channel.
FlushForcesWrite ==
  [][flush_waiters # <<>> => Len(chan') >= Len(chan)]_vars

\* the worker has taken the Shutdown command off the channel
ShutdownObserved == wpc \in {"drain", "dwriting", "done"}

\* C24: once the worker has taken Shutdown it never returns to the blocking
\* receive or to the loop; it starts at most one insert_batch, which carries
\* the draft batch; when it exits every barrier it collected is signalled and
\* none is left; and it does exit.
ShutdownIsFinal ==
  /\ [][ShutdownObserved => ShutdownObserved']_vars
  /\ [][(ShutdownObserved /\ passed' # passed) =>
          (wpc = "drain" /\ wpc' = "dwriting" /\ Numbers(batch) \subseteq passed')]_vars
  /\ [][wpc = "dwriting" => wpc' \in {"dwriting", "done"}]_vars
  /\ [][wpc = "done" => (wpc' = "done" /\ passed' = passed /\ rows' = rows)]_vars
  /\ [][(wpc # "done" /\ wpc' = "done") =>
          (Range(flush_waiters) \subseteq signalled' /\ flush_waiters' = <<>>)]_vars
  /\ ShutdownObserved ~> (wpc = "done")

\* the final write is in progress, with messages in it and a barrier collected
ShutdownIsFinalWitness ==
  /\ wpc = "dwriting"
  /\ batch # <<>>
  /\ flush_waiters # <<>>

\* the step in which an insert_batch call of the loop returns Err
WriteFails == wpc = "writing" /\ lost' # lost

\* C25: the messages of a failed insert_batch are in no row and in no later
\* draft or command, at any later time; the step in which the write fails
\* signals the barriers collected in that iteration, clears the draft and
\* leaves the worker at its blocking receive.
DropOnError ==
  /\ [](\A n \in lost : RowOf(n) = 0 /\ n \notin Numbers(batch) /\ n \notin InChannel)
  /\ [][lost \subseteq lost']_vars
  /\ [][WriteFails =>
          /\ lost' = lost \cup Numbers(batch)
          /\ batch' = <<>>
          /\ Range(flush_waiters) \subseteq signalled'
          /\ flush_waiters' = <<>>
          /\ wpc' = "recv"]_vars

\* after a failed write that a barrier waited on, a message published
\* later has been written
DropOnErrorWitness ==
  /\ lost # {}
  /\ signalled # {}
  /\ \A f \in signalled : flush[f].before \cap lost # {}
  /\ \E n \in lost, i \in 1..Len(rows) : rows[i].data > n

\* the last call to return was a subscribe for s that returned the store's error
SubscribeFailed(s) ==
  ret.op = "subscribe" /\ ret.session_id = s /\ ret.val = "Database"

\* C26: a subscribe that returns the store's error is one whose max_id() call
\* failed; it starts no task and changes neither the registry nor the set of
\* subscribed sessions; a subscribe for an unregistered session whose max_id()
\* call succeeds returns Ok; and after a failed subscribe for s, s is not
\* registered and a subscribe for s can return Ok.
SubscribeFailure ==
  /\ [][(SubscribeReturns /\ ret'.val = "Database") =>
          /\ nfail' = nfail + 1
          /\ registry[ret'.session_id] = 0
          /\ UNCHANGED <<registry, task, subscribed, delivered>>]_vars
  /\ [][(SubscribeReturns /\ registry[ret'.session_id] = 0 /\ nfail' = nfail) =>
          ret'.val = "Ok"]_vars
  /\ [](\A s \in Sessions :
          (SubscribeFailed(s) /\ stopping = 0) =>
            /\ registry[s] = 0
            /\ s \notin subscribed
            /\ Live(s) = {}
            /\ ENABLED (Subscribe(s) /\ ret'.val = "Ok"))

\* a subscribe has failed on max_id() while the other session is subscribed:
\* the count is still 1 and the session is not registered
SubscribeFailureWitness ==
  \E s \in Sessions :
    /\ SubscribeFailed(s)
    /\ registry[s] = 0
    /\ Cardinality(Registered) = 1
    /\ Cardinality({t \in 1..MaxSubs : task[t].pc # "none"}) = 1

\* C27: while an unsubscribe waits for its subscriber's task to stop, the
\* registry is not locked: subscribe, is_subscribed and subscription_count can
\* complete.
UnsubscribeStopsUnlocked ==
  stopping # 0 =>
    /\ ENABLED SubscriptionCount
    /\ \A s \in Sessions : ENABLED IsSubscribed(s)
    /\ \A s \in Sessions : ENABLED Subscribe(s)

\* the step in which a fetch_after call of polling subscriber t returns Err
FetchFails(t) == task[t].pc = "fetch" /\ task'[t].missed # task[t].missed

\* C28: a fetch_after failure in the polling loop leaves the cursor as it
\* was, invokes no callback and takes the task to its sleep, not out of the
\* loop; the sleep leaves the cursor alone and ends the loop only when the task
\* was asked to stop; the next successful fetch returns what fetch_after finds
\* above that cursor; and every message a failed fetch would have returned is
\* delivered later, unless it is marked delivered first.
FetchFailureRetried ==
  /\ [][\A t \in 1..MaxSubs :
          FetchFails(t) =>
            /\ task'[t].last_id = task[t].last_id
            /\ task'[t].pc = "sleep"
            /\ task'[t].msgs = <<>>
            /\ delivered' = delivered]_vars
  /\ [][\A t \in 1..MaxSubs :
          task[t].pc = "sleep" =>
            /\ task'[t].last_id = task[t].last_id
            /\ task'[t].pc \in {"sleep", "fetch", "stopped"}
            /\ task'[t].pc = "stopped" => task[t].shutdown]_vars
  /\ [][\A t \in 1..MaxSubs :
          (task[t].pc = "fetch" /\ task'[t].pc = "deliver") =>
            task'[t].msgs = FetchAfter(rows, task[t].session_id, task[t].last_id, PollLimit)]_vars
  /\ \A t \in 1..MaxSubs, id \in 1..MaxN :
       (id \in task[t].missed) ~> (DeliveredTo(t, id) \/ Marked(id))

\* a message that a failed fetch would have returned has been delivered by a
\* later poll
FetchFailureRetriedWitness ==
  \E t \in 1..MaxSubs :
    \E id \in task[t].missed : DeliveredTo(t, id) /\ ~Marked(id)

\* the stored, unstamped rows of push subscriber t's session that were
\* persisted after t's starting cursor was read and before its listener was armed
GapRows(t) ==
  {i \in 1..Len(rows) : /\ rows[i].session_id = task[t].session_id
                        /\ rows[i].delivered_at = NULL
                        /\ rows[i].id > task[t].start
                        /\ rows[i].id <= task[t].armed}

\* C29: when the listener of a push subscriber is armed, every message of its
\* session persisted since its starting cursor was read has been passed to the
\* callback by the catch-up (here for a catch-up whose fetch did not fail and
\* did not reach its limit).
CatchupClosesGap ==
  \A t \in 1..MaxSubs :
    (task[t].listening /\ task[t].missed = {} /\ Len(delivered[t]) < CatchupLimit) =>
      \A i \in GapRows(t) : DeliveredTo(t, rows[i].id)

\* the step in which listener.recv() of push subscriber t yields a notification
Wakeup(t) ==
  task[t].pc = "wait" /\ task'[t].listening /\ Len(inbox'[t]) < Len(inbox[t])

\* C30: a wakeup whose id is at most the cursor leads back to the loop's top
\* with no fetch and no callback, a wakeup with a larger id leads to a fetch;
\* that fetch is fetch_after from the cursor with the main loop's limit,
\* whatever the id was; the callback is invoked with the fetched rows in order,
\* the cursor following them, and only there and in the catch-up.
WakeupIsHint ==
  /\ [][\A t \in 1..MaxSubs :
          Wakeup(t) =>
            /\ delivered' = delivered
            /\ task'[t].last_id = task[t].last_id
            /\ task'[t].pc = IF Head(inbox[t]) > task[t].last_id THEN "pfetch" ELSE "pcheck"]_vars
  /\ [][\A t \in 1..MaxSubs :
          task[t].pc = "pfetch" =>
            /\ task'[t].pc \in {"pfetch", "pdeliver", "pcheck"}
            /\ delivered' = delivered
            /\ task'[t].last_id = task[t].last_id
            /\ task'[t].pc = "pdeliver" =>
                 task'[t].msgs = FetchAfter(rows, task[t].session_id, task[t].last_id, PollLimit)]_vars
  /\ [][\A t \in 1..MaxSubs :
          delivered'[t] # delivered[t] =>
            /\ task[t].pc \in {"cdeliver", "pdeliver"}
            /\ delivered'[t] = Append(delivered[t], Head(task[t].msgs))
            /\ task'[t].last_id = Head(task[t].msgs).id
            /\ task'[t].msgs = Tail(task[t].msgs)]_vars

\* the main loop is about to pass to the callback a message that was persisted
\* before the listener was armed and so had no wakeup of its own
WakeupIsHintWitness ==
  \E t \in 1..MaxSubs :
    /\ task[t].pc = "pdeliver"
    /\ Head(task[t].msgs).id <= task[t].armed

\* ------------------------------------------------------------------- C31
\* task t returned although stop() never set its flag: pg.listen failed or
\* listener.recv() returned Err
Errored(t) == task[t].pc = "stopped" /\ ~task[t].shutdown

\* a step in which arming the stream fails or the armed stream yields Err
StreamError(t) ==
  /\ task[t].pc \in {"listen", "wait"}
  /\ nfail' = nfail + 1
  /\ task'[t] # task[t]

\* C31: on a wakeup-stream error or a failure to arm the stream the push
\* subscriber's task ends and invokes no callback afterwards, also when rows
\* of its session are written later; its registry entry stays, so
\* is_subscribed returns true and subscribe returns the duplicate error for
\* the session, until unsubscribe removes the entry
StreamErrorEndsTask ==
  /\ [][\A t \in 1..MaxSubs : StreamError(t) => task'[t].pc = "stopped"]_vars
  /\ [][\A t \in 1..MaxSubs :
          task[t].pc = "stopped" => delivered'[t] = delivered[t] /\ task'[t].pc = "stopped"]_vars
  /\ [](\A t \in 1..MaxSubs : Errored(t) => registry[task[t].session_id] = t)
  /\ [][\A t \in 1..MaxSubs :
          Errored(t) /\ ret' # ret /\ ret'.session_id = task[t].session_id
          => /\ ret'.op = "is_subscribed" => ret'.val = TRUE
             /\ ret'.op = "subscribe" => ret'.val = "Config"]_vars
  /\ [][\A t \in 1..MaxSubs :
          Errored(t) /\ stopping' = t => registry'[task[t].session_id] = 0]_vars

\* the task ended on a stream error, a row of its session was written after
\* its cursor and stays undelivered, and a subscribe for the session has
\* returned the duplicate error
StreamErrorEndsTaskWitness ==
  \E t \in 1..MaxSubs :
    /\ Errored(t)
    /\ task[t].listening = FALSE
    /\ ret = [op |-> "subscribe", session_id |-> task[t].session_id, val |-> "Config"]
    /\ \E i \in 1..Len(rows) :
         /\ rows[i].session_id = task[t].session_id
         /\ rows[i].id > task[t].last_id
         /\ rows[i].delivered_at = NULL
         /\ ~DeliveredTo(t, rows[i].id)

\* ------------------------------------------------------------------- C32
\* the task of subscriber t ends in this step
TaskEnds(t) == task[t].pc # "stopped" /\ task'[t].pc = "stopped"

\* the lifecycle's steps other than the way into Stopped: a subscriber exists
\* only with its initial cursor (max_id) and its task at the top of its loop,
\* callbacks are made by an existing task for ids above that cursor, the
\* shutdown flag is never cleared and an ended task stays ended
LifecycleSteps ==
  /\ [](\A t \in 1..MaxSubs : task[t].pc = "none" => delivered[t] = <<>>)
  /\ [][\A t \in 1..MaxSubs :
          /\ task[t].pc = "none" /\ task'[t].pc # "none"
             => /\ task'[t].pc \in {"check", "catchup"}
                /\ task'[t].last_id = task'[t].start
                /\ ~task'[t].shutdown
          /\ delivered'[t] # delivered[t]
             => /\ task[t].pc \notin {"none", "stopped"}
                /\ delivered'[t][Len(delivered'[t])].id > task[t].start
          /\ task[t].shutdown => task'[t].shutdown
          /\ task[t].pc = "stopped" => task'[t].pc = "stopped"]_vars

\* C32 as stated: Starting -> Running -> Stopping -> Stopped only; the task
\* ends only after stop() set the shutdown flag, no callback is made before
\* the initial cursor was obtained, and Running is not entered again
LifecycleOnlyByStop ==
  /\ LifecycleSteps
  /\ [][\A t \in 1..MaxSubs : TaskEnds(t) => task[t].shutdown]_vars

\* C32 amended: the task ends only after stop() set the shutdown flag or,
\* for the push subscriber, when arming the wakeup stream fails or the stream
\* yields an error; the polling subscriber's task ends only through stop()
LifecycleByStopOrStreamError ==
  /\ LifecycleSteps
  /\ [][\A t \in 1..MaxSubs :
          TaskEnds(t) => task[t].shutdown \/ (backend = "postgres" /\ StreamError(t))]_vars

\* one subscriber delivered and was ended through stop(), and a later one of
\* the session ended without stop()
LifecycleByStopOrStreamErrorWitness ==
  \E t1, t2 \in 1..MaxSubs :
    /\ task[t1].pc = "stopped" /\ task[t1].shutdown /\ delivered[t1] # <<>>
    /\ Errored(t2)

\* ------------------------------------------------------------------- C33
\* subscriber t was abandoned: stop() returned on the grace window and the
\* task has not ended
Abandoned(t) == StopReturned(t) /\ task[t].pc \notin {"none", "stopped"}

\* C33: stop() sets the shutdown flag and always returns, when the task's
\* handle completes or the grace window elapses, also when the task never
\* takes another step; its return changes nothing of the task (the handle is
\* dropped, not aborted), and a task that evaluates its loop condition or
\* wakes from the polling sleep with the flag set ends
StopAlwaysReturns ==
  /\ \A t \in 1..MaxSubs : (stopping = t) ~> (stopping = 0)
  /\ [][stopping = 0 /\ stopping' # 0 => task'[stopping'].shutdown]_vars
  /\ [][stopping # 0 /\ stopping' = 0
        => /\ task' = task /\ delivered' = delivered /\ inbox' = inbox
           /\ ret'.op = "unsubscribe" /\ ret'.val = "Ok"]_vars
  /\ [][\A t \in 1..MaxSubs :
          /\ task[t].shutdown
          /\ task[t].pc \in {"check", "sleep", "pcheck"}
          /\ task'[t] # task[t]
          => task'[t].pc = "stopped"]_vars

\* unsubscribe returned while the task was inside its delivery: the abandoned
\* task is still about to invoke the callback
StopAlwaysReturnsWitness ==
  \E t \in 1..MaxSubs :
    /\ Abandoned(t)
    /\ task[t].pc \in {"deliver", "cdeliver", "pdeliver"}
    /\ ret = [op |-> "unsubscribe", session_id |-> task[t].session_id, val |-> "Ok"]

\* ------------------------------------------------------------------- C34
\* C34: the ids a subscriber passes to its callback are strictly increasing
\* in call order, so no subscriber delivers a row twice; a page fetched while
\* a batch write is in flight and a wakeup for an id at or below the cursor
\* do not change that
DeliveredIncreasing ==
  \A t \in 1..MaxSubs :
    \A i, j \in 1..Len(delivered[t]) :
      i < j => delivered[t][i].id < delivered[t][j].id

\* a push subscriber that delivered twice holds a wakeup for an id that a
\* previous fetch has delivered
DeliveredIncreasingWitness ==
  \E t \in 1..MaxSubs :
    /\ Len(delivered[t]) >= 2
    /\ task[t].pc = "wait"
    /\ inbox[t] # <<>>
    /\ DeliveredTo(t, Head(inbox[t]))

\* ------------------------------------------------------------------- C35
\* the place of Flush f among the commands ahead of the worker: its index in
\* the channel, or behind the whole channel its index among the waiting
\* senders; 0 when it is in neither
FlushPlace(f, ch, q) ==
  IF \E i \in 1..Len(ch) : ch[i] = FlushCmd(f)
  THEN CHOOSE i \in 1..Len(ch) : ch[i] = FlushCmd(f)
  ELSE IF \E i \in 1..Len(q) : q[i] = FlushCmd(f)
  THEN MaxQueueSize + (CHOOSE i \in 1..Len(q) : q[i] = FlushCmd(f))
  ELSE 0

\* C35: every flush() call returns when every store write returns.  A Flush
\* waiting for a slot or queued in the channel only moves towards the worker
\* whatever else is published; a barrier the worker took is held within one
\* iteration only, which has one write at most, and is signalled when that
\* iteration ends, whether the write succeeded or failed
FlushReturns ==
  /\ \A f \in 1..MaxFlush :
       (flush[f].st \in {"sending", "waiting"}) ~> (flush[f].st \in {"ok", "cancelled"})
  /\ [](wpc = "recv" => flush_waiters = <<>>)
  /\ [][(wpc \in {"fill", "writing"} /\ wpc' = "recv")
        => (Range(flush_waiters) \subseteq signalled')]_vars
  /\ [][wpc = "writing" => wpc' \in {"writing", "recv"}]_vars
  /\ [][\A f \in 1..MaxFlush :
          FlushPlace(f, chan, sendq) # 0
          => FlushPlace(f, chan', sendq') <= FlushPlace(f, chan, sendq)]_vars

\* the fill loop ended on a full batch and left a Flush in the channel, whose
\* caller waits, while the batch is being written
FlushReturnsWitness ==
  \E f \in 1..MaxFlush :
    /\ wpc = "writing"
    /\ Len(batch) = BatchSize
    /\ chan # <<>>
    /\ Head(chan) = FlushCmd(f)
    /\ flush[f].st = "waiting"
    /\ flush_waiters = <<>>

\* ------------------------------------------------------------------- C36
\* message n is stored for subscriber t's session with an id above the cursor
\* t started from
AboveStart(t, n) ==
  /\ task[t].pc # "none"
  /\ RowOf(n) # 0
  /\ rows[RowOf(n)].session_id = task[t].session_id
  /\ rows[RowOf(n)].id > task[t].start

\* C36: a message whose publish returned true before subscribe was called
\* (every publish here) and whose batch is written once the subscriber has
\* read max_id gets an id above the subscriber's starting cursor, and is
\* passed to that subscriber's callback unless it is marked delivered first
PersistTimeBoundary ==
  /\ [][\A t \in 1..MaxSubs, n \in 1..MaxN :
          /\ task[t].pc # "none"
          /\ session_of[n] = task[t].session_id
          /\ RowOf(n) = 0
          /\ RowOf(n)' # 0
          => rows'[RowOf(n)'].id > task[t].start]_vars
  /\ \A t \in 1..MaxSubs, n \in 1..MaxN :
       (AboveStart(t, n) /\ ~Marked(rows[RowOf(n)].id))
         ~> (RowOf(n) # 0 /\ (DeliveredTo(t, rows[RowOf(n)].id) \/ Marked(rows[RowOf(n)].id)))

\* a subscriber created while an accepted message was still queued or drafted
\* has been handed that message, and it did not start from 0 (an earlier row
\* of another batch was there when it read max_id)
PersistTimeBoundaryWitness ==
  \E t \in 1..MaxSubs, n \in 1..MaxN :
    /\ result[n] = "true"
    /\ AboveStart(t, n)
    /\ DeliveredTo(t, rows[RowOf(n)].id)
    /\ task[t].start > 0

\* ------------------------------------------------------------------- C37
\* a step of polling subscriber t taken with the shutdown flag set
FlaggedStep(t) ==
  /\ backend = "sqlite"
  /\ task[t].shutdown
  /\ task'[t] # task[t]

\* C37: with the shutdown flag set the polling loop ends at its next flag
\* check or out of its sleep, without waiting the interval out and without
\* issuing another fetch; a fetch issued before the flag was read as set
\* completes and each row of its page is still passed to the callback
OneMoreIteration ==
  /\ [][\A t \in 1..MaxSubs :
          FlaggedStep(t) =>
            /\ task[t].pc \in {"check", "sleep"} => task'[t].pc = "stopped"
            /\ task[t].pc = "fetch" => task'[t].pc \in {"deliver", "sleep"}
            /\ task[t].pc = "deliver"
               => /\ task'[t].pc \in {"deliver", "sleep"}
                  /\ delivered'[t] = Append(delivered[t], Head(task[t].msgs))
            /\ task'[t].pc # "fetch"]_vars
  /\ \A t \in 1..MaxSubs :
       (backend = "sqlite" /\ task[t].shutdown) ~> (task[t].pc = "stopped")

\* the flag was set while a fetch was in progress or its page was being
\* delivered: a callback is about to be made with the flag set
OneMoreIterationWitness ==
  \E t \in 1..MaxSubs :
    /\ backend = "sqlite"
    /\ task[t].shutdown
    /\ task[t].pc = "deliver"
    /\ delivered[t] # <<>>
    /\ stopping = t

\* ------------------------------------------------------------------- C38
\* the row with this id is in the page subscriber t has fetched and not yet
\* handed over
InPage(t, id) == \E i \in 1..Len(task[t].msgs) : task[t].msgs[i].id = id

\* C38: a row that is marked delivered while no page of subscriber t holds it
\* is not fetched by t afterwards and never passed to t's callback; t's
\* cursor is at least every id t delivered, so it passes the marked id with
\* the delivery of a later row
MarkedIsSkipped ==
  /\ [][\A t \in 1..MaxSubs, id \in 1..MaxN :
          Marked(id) /\ ~InPage(t, id)
          => /\ ~InPage(t, id)'
             /\ DeliveredTo(t, id)' => DeliveredTo(t, id)]_vars
  /\ [](\A t \in 1..MaxSubs :
          \A p \in 1..Len(delivered[t]) : delivered[t][p].id <= task[t].last_id)

\* a row above subscriber t's starting cursor was marked delivered and never
\* handed to t, and t's cursor has passed it with a later delivery
MarkedIsSkippedWitness ==
  \E t \in 1..MaxSubs, id \in 1..MaxN :
    /\ Marked(id)
    /\ RowWithId(rows, id).session_id = task[t].session_id
    /\ id > task[t].start
    /\ ~DeliveredTo(t, id)
    /\ task[t].last_id > id
    /\ delivered[t] # <<>>

\* ------------------------------------------------------------------- C39
\* the worker left its loop because the channel was closed
ClosedExit == engine = "dropped" /\ wpc = "done"

\* C39: when the handle is dropped without Shutdown the worker leaves its
\* loop only with the channel empty: by then every accepted message was
\* handed to a batch write, is stored unless that write failed, and every
\* barrier that was queued has been signalled
CloseLosesNothing ==
  /\ [](ClosedExit
        => /\ chan = <<>> /\ batch = <<>> /\ flush_waiters = <<>>
           /\ Accepted \subseteq passed
           /\ Accepted = {rows[i].data : i \in 1..Len(rows)} \cup lost
           /\ \A f \in 1..MaxFlush : flush[f].st \in {"ok", "cancelled"} => f \in signalled)
  /\ [][engine = "dropped" => chan' = chan \/ (chan # <<>> /\ chan' = Tail(chan))]_vars
  /\ [][engine = "dropped" /\ wpc' = "done" => (wpc = "done" \/ (wpc = "recv" /\ chan = <<>>))]_vars

\* the handle was dropped with a message and an abandoned barrier still in
\* the channel and an earlier message stored; the worker is at recv
CloseLosesNothingWitness ==
  /\ engine = "dropped"
  /\ wpc = "recv"
  /\ rows # <<>>
  /\ \E i \in 1..Len(chan) : chan[i].type = "Message"
  /\ \E i \in 1..Len(chan) : chan[i].type = "Flush"

\* ------------------------------------------------------------------- C40
\* the Message commands in the channel
QueuedMessages == SelectSeq(chan, LAMBDA c : c.type = "Message")

\* C40: the channel never holds more than max_queue_size commands, of
\* whatever kind; enqueue returns false exactly when no slot is free, also
\* when slots are taken by a Flush or Shutdown, and a flush() called on a full
\* channel puts nothing into it until a slot was freed
CapacityBoundsAllCommands ==
  /\ [](Len(chan) <= MaxQueueSize)
  /\ [][EnqueueStep /\ wpc # "done"
        => (result'[npub'] = "false") = (Len(chan) + Len(sendq) >= MaxQueueSize)]_vars
  /\ [][\A f \in 1..MaxFlush :
          flush[f].st = "none" /\ flush'[f].st # "none" /\ Len(chan) = MaxQueueSize
          => flush'[f].st = "sending" /\ chan' = chan]_vars
  /\ [][\A f \in 1..MaxFlush :
          flush[f].st = "sending" /\ flush'[f].st = "waiting"
          => Len(chan) < MaxQueueSize /\ chan' = Append(chan, FlushCmd(f))]_vars

\* a publish returned false while the channel held a Flush and fewer than
\* max_queue_size messages: the worker has taken nothing yet and no sender
\* has waited, so the channel is as that publish found it
CapacityBoundsAllCommandsWitness ==
  /\ engine = "running"
  /\ npub >= 1
  /\ result[npub] = "false"
  /\ Len(chan) = MaxQueueSize
  /\ Len(QueuedMessages) < MaxQueueSize
  /\ \E i \in 1..Len(chan) : chan[i].type = "Flush"
  /\ wpc = "recv" /\ batch = <<>> /\ passed = {} /\ sendq = <<>>
  /\ \A n \in 1..npub : result[n] \in {"true", "false"}
====
